---- MODULE Spec2Model ----
(***************************************************************************)
(* Model of the portfolio dashboard (src/src/App.tsx): the share/percent   *)
(* reconciler kept in the App component's `holdings` state, and the range  *)
(* windower indicesForRange.                                               *)
(*                                                                         *)
(* JavaScript numbers are IEEE-754 doubles.  The reconciler computes       *)
(* (a / c) * R on doubles and then takes floor / ceil / fractional part of *)
(* the result, so the rounding of the two floating-point operations is     *)
(* modelled exactly (FlDivMul below) instead of by rational arithmetic.    *)
(***************************************************************************)
EXTENDS Integers, Sequences, FiniteSets, TLC

VARIABLES
    tickers,    \* App state `tickers`: the selection, in selection order
    holdings,   \* App state `holdings`: sequence of [ticker, shares]
    last,       \* the last handler that ran, its arguments and `prev`
    calendar,   \* argument `dates` of indicesForRange
    rangeKey,   \* argument `key` of indicesForRange
    tzOffset,   \* the runtime's local timezone offset from UTC, in hours
    selIdx,     \* the value returned by indicesForRange (or "none")
    files,      \* the ticker files a load has collected (`files` of the effects)
    data,       \* component state `data` / `prices`: a PricesDemo or null
    portfolio,  \* PriceDemoChart's memo `portfolio`: an index series or null
    kpi,        \* the value returned by kpisFromIndex
    universe,   \* BenchmarkAndWinnersCard state `universe`: the reference rows
    benchmark,  \* BenchmarkAndWinnersCard state `benchmark`
    riskBucket, \* BenchmarkAndWinnersCard memo `inferredRiskBucket`
    winners,    \* BenchmarkAndWinnersCard memo `winners`
    inputs,     \* how often the dependencies of a data-loading effect changed
    loads,      \* the asynchronous loads started by the effect, one per run
    view,       \* the state the loads write, each field with its writer's run
    cache,      \* the module's _tickerFileCache: the keys it holds
    calls,      \* the calls of loadTickerFile, running and returned
    draft,      \* the total-shares field: its draft text, focus and pending events
    picker,     \* LocalTickerPicker: market, option list and outstanding fetches
    combined,   \* BenchmarkAndWinnersCard's memo `combined`
    aligned     \* the value returned by forwardFillToCalendar

vars ==
    <<tickers, holdings, last, calendar, rangeKey, tzOffset, selIdx, files, data,
      portfolio, kpi, universe, benchmark, riskBucket, winners, inputs, loads, view,
      cache, calls, draft, picker, combined, aligned>>

\* ---------------------------------------------------------------- bounds
MaxTotal == 6       \* largest sum of shares explored in Spec
MaxPctShares == 13  \* largest per-ticker share count explored in SpecPct

\* ------------------------------------------------------------- utilities
Max(a, b) == IF a >= b THEN a ELSE b
Min(a, b) == IF a <= b THEN a ELSE b
Abs(a) == IF a >= 0 THEN a ELSE 0 - a

RECURSIVE Pow2(_)
Pow2(k) == IF k <= 0 THEN 1 ELSE 2 * Pow2(k - 1)

\* 2^k mod m for 52 <= k < 65 and m < 2^15, without ever forming 2^k:
\* 2^k = ((2^13)^2)^2 * 2^(k - 52)
ModPow2(k, m) ==
    LET p13 == 8192 % m
        p26 == (p13 * p13) % m
        p52 == (p26 * p26) % m
    IN  (p52 * Pow2(k - 52)) % m

RECURSIVE SeqSum(_)
SeqSum(s) == IF s = <<>> THEN 0 ELSE Head(s) + SeqSum(Tail(s))

Range(s) == {s[i] : i \in DOMAIN s}

\* ------------------------------------------------- IEEE-754 double model
\* fl(fl(a / c) * R) for integers 0 <= a <= c, c >= 1, R >= 0, as the pair
\*   [n |-> a * R, c |-> c, e |-> err]  meaning  n / c + err / (c * 2^60):
\* the exact quotient plus the accumulated rounding error of the division
\* and of the multiplication (round to nearest, ties to even, 53-bit
\* significand).
\* floor(log2(a / c)) for a >= 1, c >= 1
RECURSIVE Log2Down(_, _, _)
Log2Down(a, c, E) == IF a * Pow2(0 - E) >= c THEN E ELSE Log2Down(a, c, E - 1)
RECURSIVE Log2Up(_, _, _)
Log2Up(a, c, E) == IF a < c * Pow2(E + 1) THEN E ELSE Log2Up(a, c, E + 1)
Log2Floor(a, c) == IF a >= c THEN Log2Up(a, c, 0) ELSE Log2Down(a, c, 0)

\* signed distance from a value with low bits `lo` (of `t` dropped bits) to
\* the value it rounds to; qpar is the parity of the kept part
RoundHalfEven(lo, t, qpar) ==
    IF t = 0 THEN 0
    ELSE LET half == Pow2(t - 1) IN
         IF lo < half THEN 0 - lo
         ELSE IF lo > half THEN Pow2(t) - lo
         ELSE IF qpar = 0 THEN 0 - lo ELSE Pow2(t) - lo

\* rounding error of fl(a / c), in units of 1 / (c * 2^s1)
FlDivErr(a, c, s1) ==
    LET r == (a * ModPow2(s1, c)) % c
        qpar == ((a * ModPow2(s1, 2 * c)) % (2 * c)) \div c
    IN  IF 2 * r < c THEN 0 - r
        ELSE IF 2 * r > c THEN c - r
        ELSE IF qpar = 0 THEN 0 - r ELSE c - r

\* rounding error of fl(q * R) for q = fl(a / c) = (a * 2^s1 + d1) / (c * 2^s1),
\* in units of 1 / 2^s1; t is the number of significand bits the product
\* has to drop
FlMulErr(a, c, R, s1, d1, t) ==
    LET m == c * Pow2(t + 1)
        dropped(P) == RoundHalfEven(P % Pow2(t), t, P \div Pow2(t))
    IN  dropped(((((((a * ModPow2(s1, m)) % m) + d1) % m) \div c) * R) % Pow2(t + 1))

FlDivMul(a, c, R) ==
    IF a = 0 \/ R = 0 THEN [n |-> 0, c |-> c, e |-> 0]
    ELSE
      LET n == a * R
          product(E1, d1, E0) ==
              LET isPow == IF E0 >= 0 THEN n = c * Pow2(E0) ELSE n * Pow2(0 - E0) = c
                  E2 == IF d1 < 0 /\ isPow THEN E0 - 1 ELSE E0
                  result(d2) ==
                      [n |-> n, c |-> c, e |-> (d1 * R + c * d2) * Pow2(60 - (52 - E1))]
              IN  result(FlMulErr(a, c, R, 52 - E1, d1, E2 - E1))
          quotient(E1) == product(E1, FlDivErr(a, c, 52 - E1), Log2Floor(n, c))
      IN  quotient(Log2Floor(a, c))

\* Math.floor, Math.ceil and x - Math.floor(x) of such a double.  The
\* fractional part is exact in floating point; it is kept as <<m, e>>,
\* meaning (m + e / 2^60) / c, and two of them with the same c compare
\* lexicographically.
FlFloor(x) ==
    IF x.e < 0 /\ x.n % x.c = 0 /\ x.n > 0 THEN (x.n \div x.c) - 1 ELSE x.n \div x.c
FlCeil(x) ==
    IF x.n % x.c # 0 THEN (x.n \div x.c) + 1
    ELSE IF x.e > 0 THEN (x.n \div x.c) + 1 ELSE x.n \div x.c
FlFrac(x) ==
    IF x.e < 0 /\ x.n % x.c = 0 /\ x.n > 0 THEN <<x.c, x.e>> ELSE <<x.n % x.c, x.e>>
FracGreater(f, g) == f[1] > g[1] \/ (f[1] = g[1] /\ f[2] > g[2])

\* ------------------------------------------------------------ tickers
\* The picker's option list (LocalTickerPicker `options`), which the code
\* keeps sorted by localeCompare; a ticker's position is its collation rank.
Options == <<"AAPL", "GOOG", "MSFT">>
Rank(t) == CHOOSE i \in DOMAIN Options : Options[i] = t
localeCompare(a, b) == Rank(a) - Rank(b)

\* localeCompare of two date keys (the records described in the section on
\* dates below): zero-padded ISO dates collate in calendar order, and digits
\* collate before the letters of a label such as "Q1"
dateOrd(k) == IF k.iso THEN (k.y * 12 + (k.m - 1)) * 31 + (k.d - 1) ELSE 1000000 + k.d
dateCompare(a, b) == dateOrd(a) - dateOrd(b)

\* Comparators handed to Array.prototype.sort; TRUE when compare(a, b) < 0.
\*   "name":     (a, b) => a.ticker.localeCompare(b.ticker)
\*   "frac":     (a, b) => b.frac - a.frac
\*   "fracName": (a, b) => (b.frac - a.frac) || a.ticker.localeCompare(b.ticker)
\*   "time":     (a, b) => a.t - b.t
\*   "date":     (a, b) => a.localeCompare(b) on date keys
Before(cmp, a, b) ==
    IF cmp = "time" THEN a.t < b.t
    ELSE IF cmp = "date" THEN dateCompare(a, b) < 0
    ELSE IF cmp = "name" THEN localeCompare(a.ticker, b.ticker) < 0
    ELSE IF cmp = "frac" THEN FracGreater(a.frac, b.frac)
    ELSE FracGreater(a.frac, b.frac)
         \/ (a.frac = b.frac /\ localeCompare(a.ticker, b.ticker) < 0)

\* Array.prototype.sort is stable: an element goes after every element the
\* comparator does not put it before.
RECURSIVE InsertStable(_, _, _)
InsertStable(sorted, x, cmp) ==
    IF sorted = <<>> THEN <<x>>
    ELSE IF Before(cmp, x, Head(sorted)) THEN <<x>> \o sorted
         ELSE <<Head(sorted)>> \o InsertStable(Tail(sorted), x, cmp)

RECURSIVE SortStable(_, _)
SortStable(s, cmp) ==
    IF s = <<>> THEN <<>>
    ELSE InsertStable(SortStable(SubSeq(s, 1, Len(s) - 1), cmp), s[Len(s)], cmp)

\* position of ticker t in a sequence of records with a ticker field, or 0
IndexOf(s, t) ==
    IF \E i \in DOMAIN s : s[i].ticker = t
    THEN CHOOSE i \in DOMAIN s : s[i].ticker = t
    ELSE 0

\* ------------------------------------------------- the share reconciler
\* prev.reduce((s, x) => s + x.shares, 0)
totalShares(hs) == SeqSum([i \in DOMAIN hs |-> hs[i].shares])

\* pct as displayed: (h.shares / Math.max(1, totalShares)) * 100, kept as
\* the fraction <<numerator, denominator>> of 100
pct(hs, t) == <<100 * hs[IndexOf(hs, t)].shares, Max(1, totalShares(hs))>>

setSharesUnclamped(prev, ticker, shares) ==
    [i \in DOMAIN prev |->
        IF prev[i].ticker = ticker THEN [prev[i] EXCEPT !.shares = shares] ELSE prev[i]]

\* setShares: v = Math.max(0, Math.round(shares)); replace one holding
setShares(prev, ticker, shares) ==
    LET v == Max(0, shares)
    IN  [i \in DOMAIN prev |->
            IF prev[i].ticker = ticker THEN [prev[i] EXCEPT !.shares = v] ELSE prev[i]]

desiredSharesFloor(total, pctTarget) ==
    Min(FlFloor(FlDivMul(Max(0, Min(100, pctTarget)), 100, total)), total)

\* Math.ceil((Math.max(0, Math.min(100, pctTarget)) / 100) * total), clamped
desiredShares(total, pctTarget) ==
    Min(FlCeil(FlDivMul(Max(0, Min(100, pctTarget)), 100, total)), total)

\* the even split used when nothing can be split proportionally: the list
\* sorted by ticker name, the first `rem` entries get base + 1
evenSplit(xs, amount) ==
    LET n == Len(xs)
        base == amount \div n
        rem == amount - base * n
        ordered == SortStable(xs, "name")
    IN  [k \in DOMAIN ordered |->
            [ticker |-> ordered[k].ticker,
             shares |-> base + (IF k <= rem THEN 1 ELSE 0)]]

\* { ticker, floor: Math.floor(exact), frac: exact - Math.floor(exact) }
\* with exact = (shares / denom) * amount
ratioOf(x, denom, amount) ==
    LET entry(exact) ==
            [ticker |-> x.ticker, floor |-> FlFloor(exact), frac |-> FlFrac(exact)]
    IN  entry(FlDivMul(x.shares, denom, amount))

\* for (let i = 0; i < n && rem > 0; i++) { extras[i] += 1; rem -= 1;
\*   if (i === n - 1 && rem > 0) i = -1; }
RECURSIVE distributeLoop(_, _, _)
distributeLoop(extras, i, rem) ==
    IF ~(i < Len(extras) /\ rem > 0) THEN extras
    ELSE LET rem2 == rem - 1
             i2 == IF i = Len(extras) - 1 /\ rem2 > 0 THEN 0 - 1 ELSE i
         IN  distributeLoop([extras EXCEPT ![i + 1] = @ + 1], i2 + 1, rem2)

\* whether that loop runs `i = -1`, its wrap-around, for n entries
RECURSIVE loopWraps(_, _, _)
loopWraps(n, i, rem) ==
    IF ~(i < n /\ rem > 0) THEN FALSE
    ELSE IF i = n - 1 /\ rem - 1 > 0 THEN TRUE
    ELSE loopWraps(n, i + 1, rem - 1)

\* rem = amount - used, the leftover after flooring
leftoverOf(xs, denom, amount) ==
    amount - SeqSum([i \in DOMAIN xs |-> ratioOf(xs[i], denom, amount).floor])

\* largest-remainder allocation of `amount` over xs in proportion to their
\* shares (sum `denom` > 0); cmp is the comparator of the call site
largestRemainder(xs, denom, amount, cmp) ==
    LET give(sorted, extras) ==
            [i \in DOMAIN sorted |->
                [ticker |-> sorted[i].ticker, shares |-> sorted[i].floor + extras[i]]]
        spread(sorted, rem) ==
            give(sorted, distributeLoop([i \in DOMAIN sorted |-> 0], 0, rem))
        split(raw) ==
            spread(SortStable(raw, cmp),
                   amount - SeqSum([i \in DOMAIN raw |-> raw[i].floor]))
    IN  split([i \in DOMAIN xs |-> ratioOf(xs[i], denom, amount)])

setPctAndRebalance(prev, ticker, pctTarget) ==
    IF prev = <<>> THEN prev
    ELSE
      LET merge(desired, others, alloc) ==
              IF others = <<>>
              THEN [i \in DOMAIN prev |->
                      IF prev[i].ticker = ticker
                      THEN [prev[i] EXCEPT !.shares = desired] ELSE prev[i]]
              ELSE [i \in DOMAIN prev |->
                      IF prev[i].ticker = ticker
                      THEN [prev[i] EXCEPT !.shares = desired]
                      ELSE IF IndexOf(alloc, prev[i].ticker) # 0
                           THEN [prev[i] EXCEPT
                                   !.shares = alloc[IndexOf(alloc, prev[i].ticker)].shares]
                           ELSE prev[i]]
          rebalance(desired, others, remaining, otherTotal) ==
              merge(desired, others,
                    IF otherTotal <= 0 THEN evenSplit(others, remaining)
                    ELSE largestRemainder(others, otherTotal, remaining, "frac"))
          edit(total, desired, others) ==
              rebalance(desired, others, total - desired, totalShares(others))
          withTotal(total) ==
              edit(total, desiredShares(total, pctTarget),
                   SelectSeq(prev, LAMBDA x : x.ticker # ticker))
      IN  withTotal(Max(1, totalShares(prev)))

setTotalSharesAndRescale(prev, targetTotal) ==
    LET T == Max(0, targetTotal)
        merge(alloc) ==
            [i \in DOMAIN prev |->
                [prev[i] EXCEPT !.shares = alloc[IndexOf(alloc, prev[i].ticker)].shares]]
        rescale(curTotal) ==
            merge(IF curTotal <= 0 THEN evenSplit(prev, T)
                  ELSE largestRemainder(prev, curTotal, T, "fracName"))
    IN  IF prev = <<>> THEN prev ELSE rescale(totalShares(prev))

syncHoldingsAlwaysReset(prev, tks) ==
    LET added == SelectSeq(tks, LAMBDA t : IndexOf(prev, t) = 0)
    IN  [i \in DOMAIN tks |->
            [ticker |-> tks[i],
             shares |-> IF Len(added) > 0 \/ IndexOf(prev, tks[i]) = 0
                        THEN 1 ELSE prev[IndexOf(prev, tks[i])].shares]]

\* the effect that keeps holdings in sync with the ticker selection
syncHoldings(prev, tks) ==
    LET prevShares(t) == IF IndexOf(prev, t) # 0 THEN prev[IndexOf(prev, t)].shares ELSE 1
        next == [i \in DOMAIN tks |-> [ticker |-> tks[i], shares |-> prevShares(tks[i])]]
        added == SelectSeq(tks, LAMBDA t : IndexOf(prev, t) = 0)
        userEdited == \E i \in DOMAIN prev : prev[i].shares # 1
    IN  IF Len(added) > 0 /\ ~userEdited
        THEN [i \in DOMAIN next |-> [next[i] EXCEPT !.shares = 1]]
        ELSE next

\* ------------------------------------------------------------- actions
\* the slider: <input type="range" min=0 max=100 step=1>.  Spec moves it to
\* the positions where ceil(pct / 100 * total) changes for small totals;
\* SpecPct moves it to every position.
PctInputs == {0, 1, 25, 34, 50, 75, 100}
\* the number inputs: any integer the bound allows; -1 stands for the
\* negative values that Math.max(0, ...) clamps
ShareInputs == (0 - 1) .. MaxTotal

NoCal == <<>>
\* useState<PricesDemo | null>(null)
NullData == [null |-> TRUE, dates |-> <<>>, series |-> <<>>]
\* `return null as null | number[]`
NullIndex == [null |-> TRUE, values |-> <<>>]
\* { totalReturn: 0, cagr: 0, maxDrawdown: 0 }
ZeroKpi == [totalReturn |-> <<0, 1>>, cagr |-> "0", maxDrawdown |-> <<0, 1>>]

\* BenchmarkAndWinnersCard before its load resolves: universe null,
\* benchmark "QQQ", no portfolio weights, no winners
NullUniverse == [null |-> TRUE, rows |-> <<>>]
riskIdle ==
    /\ universe = NullUniverse
    /\ benchmark = "QQQ"
    /\ riskBucket = "unknown"
    /\ winners = <<>>
riskUnchanged == UNCHANGED <<universe, benchmark, riskBucket, winners>>
\* no data-loading effect has run
loadIdle ==
    /\ inputs = 0
    /\ loads = <<>>
    /\ view = [comp |-> "none", stale |-> FALSE]
loadUnchanged == UNCHANGED <<inputs, loads, view>>
\* the fetch layer and the remaining components before anything happened:
\* an empty file cache, no call of loadTickerFile, the total-shares field and
\* the ticker picker not mounted, no comparison and no aligned series
NullCombined == [null |-> TRUE, dates |-> <<>>, port |-> <<>>, bench |-> <<>>]
shellIdle ==
    /\ cache = {}
    /\ calls = <<>>
    /\ draft = [mounted |-> FALSE]
    /\ picker = [mounted |-> FALSE]
    /\ combined = NullCombined
    /\ aligned = <<>>
shellUnchanged == UNCHANGED <<cache, calls, draft, picker, combined, aligned>>

Init ==
    /\ tickers = <<"AAPL", "MSFT">>
    /\ holdings = <<[ticker |-> "AAPL", shares |-> 1], [ticker |-> "MSFT", shares |-> 1]>>
    /\ last = [op |-> "init", ticker |-> "", arg |-> 0, prev |-> <<>>]
    /\ calendar = NoCal
    /\ rangeKey = "1Y"
    /\ tzOffset = 0
    /\ selIdx = <<>>
    /\ files = <<>>
    /\ data = NullData
    /\ portfolio = NullIndex
    /\ kpi = ZeroKpi
    /\ riskIdle
    /\ shellIdle
    /\ loadIdle

rangeUnchanged ==
    UNCHANGED <<calendar, rangeKey, tzOffset, selIdx, files, data, portfolio, kpi,
                universe, benchmark, riskBucket, winners, inputs, loads, view,
                cache, calls, draft, picker, combined, aligned>>

\* LocalTickerPicker add(t): onChange([...value, T]), then the sync effect
AddTicker(t) ==
    /\ t \notin Range(tickers)
    /\ totalShares(holdings) + 1 <= MaxTotal
    /\ tickers' = Append(tickers, t)
    /\ holdings' = syncHoldings(holdings, tickers')
    /\ last' = [op |-> "add", ticker |-> t, arg |-> 0, prev |-> holdings]
    /\ rangeUnchanged

\* LocalTickerPicker remove(t): onChange(value.filter(...)), then the effect
RemoveTicker(t) ==
    /\ t \in Range(tickers)
    /\ tickers' = SelectSeq(tickers, LAMBDA x : x # t)
    /\ holdings' = syncHoldings(holdings, tickers')
    /\ last' = [op |-> "remove", ticker |-> t, arg |-> 0, prev |-> holdings]
    /\ rangeUnchanged

\* the Shares input's onChange
SetShares(t, v) ==
    /\ IndexOf(holdings, t) # 0
    /\ totalShares(setShares(holdings, t, v)) <= MaxTotal
    /\ holdings' = setShares(holdings, t, v)
    /\ last' = [op |-> "setShares", ticker |-> t, arg |-> v, prev |-> holdings]
    /\ UNCHANGED tickers
    /\ rangeUnchanged

\* the percent slider's onChange
SetPct(t, p) ==
    /\ IndexOf(holdings, t) # 0
    /\ holdings' = setPctAndRebalance(holdings, t, p)
    /\ last' = [op |-> "setPct", ticker |-> t, arg |-> p, prev |-> holdings]
    /\ UNCHANGED tickers
    /\ rangeUnchanged

\* the Total shares field applied with a new total
SetTotal(T) ==
    /\ holdings' = setTotalSharesAndRescale(holdings, T)
    /\ last' = [op |-> "setTotal", ticker |-> "", arg |-> T, prev |-> holdings]
    /\ UNCHANGED tickers
    /\ rangeUnchanged

Next ==
    \/ \E t \in Range(Options) : AddTicker(t)
    \/ \E t \in Range(Options) : RemoveTicker(t)
    \/ \E t \in Range(Options), v \in ShareInputs : SetShares(t, v)
    \/ \E t \in Range(Options), p \in PctInputs : SetPct(t, p)
    \/ \E T \in 0 .. MaxTotal : SetTotal(T)

Spec == Init /\ [][Next]_vars

TypeOK ==
    /\ Len(holdings) = Len(tickers)
    /\ \A i \in DOMAIN holdings : holdings[i].ticker = tickers[i]

\* ---------------------------------------------- the percent edit alone
\* Two holdings with any share counts up to MaxPctShares (each reachable
\* by direct share edits), then one move of the percent slider to any of
\* its 101 positions.
InitPct ==
    /\ tickers = <<"AAPL", "MSFT">>
    /\ \E a \in 0 .. MaxPctShares, b \in 0 .. MaxPctShares :
          holdings = <<[ticker |-> "AAPL", shares |-> a], [ticker |-> "MSFT", shares |-> b]>>
    /\ last = [op |-> "init", ticker |-> "", arg |-> 0, prev |-> <<>>]
    /\ calendar = NoCal
    /\ rangeKey = "1Y"
    /\ tzOffset = 0
    /\ selIdx = <<>>
    /\ files = <<>>
    /\ data = NullData
    /\ portfolio = NullIndex
    /\ kpi = ZeroKpi
    /\ riskIdle
    /\ shellIdle
    /\ loadIdle

SlidePct(t, p) ==
    /\ last.op = "init"
    /\ SetPct(t, p)

NextPct == \E t \in Range(Options), p \in 0 .. 100 : SlidePct(t, p)

SpecPct == InitPct /\ [][NextPct]_vars

\* ------------------------------------------- the grand-total edit alone
\* Three holdings whose share counts are 0 or powers of two (each reachable
\* by direct share edits), then one edit of the grand total.
MaxRescaleExp == 5      \* share counts are 0 or 2^0 .. 2^MaxRescaleExp
MaxRescaleTotal == 49   \* largest grand total typed
RescalePool == {0} \cup {Pow2(k) : k \in 0 .. MaxRescaleExp}
InitRescale ==
    /\ tickers = <<"AAPL", "MSFT", "GOOG">>
    /\ \E a \in RescalePool, b \in RescalePool, c \in RescalePool :
          holdings = <<[ticker |-> "AAPL", shares |-> a], [ticker |-> "MSFT", shares |-> b],
                       [ticker |-> "GOOG", shares |-> c]>>
    /\ last = [op |-> "init", ticker |-> "", arg |-> 0, prev |-> <<>>]
    /\ calendar = NoCal
    /\ rangeKey = "1Y"
    /\ tzOffset = 0
    /\ selIdx = <<>>
    /\ files = <<>>
    /\ data = NullData
    /\ portfolio = NullIndex
    /\ kpi = ZeroKpi
    /\ riskIdle
    /\ shellIdle
    /\ loadIdle

RescaleOnce(T) ==
    /\ last.op = "init"
    /\ SetTotal(T)

NextRescale == \E T \in 0 .. MaxRescaleTotal : RescaleOnce(T)

SpecRescale == InitRescale /\ [][NextRescale]_vars

\* ------------------------------------------------------------- claims
sharesOf(hs, t) == hs[IndexOf(hs, t)].shares

\* The allocations as the specification words them, in exact integer
\* arithmetic: floor of the exact proportional share, then one unit each
\* to the `leftover` largest remainders, equal remainders ordered by
\* ascending ticker name.
ClaimedProportional(xs, denom, amount, t) ==
    LET fl(u) == (sharesOf(xs, u) * amount) \div denom
        rm(u) == (sharesOf(xs, u) * amount) % denom
        names == {xs[i].ticker : i \in DOMAIN xs}
        leftover == amount - SeqSum([i \in DOMAIN xs |-> fl(xs[i].ticker)])
        ahead == {u \in names : rm(u) > rm(t) \/ (rm(u) = rm(t) /\ Rank(u) < Rank(t))}
    IN  fl(t) + (IF Cardinality(ahead) < leftover THEN 1 ELSE 0)

ClaimedEven(xs, amount, t) ==
    LET names == {xs[i].ticker : i \in DOMAIN xs}
        n == Cardinality(names)
        ahead == {u \in names : Rank(u) < Rank(t)}
    IN  (amount \div n) + (IF Cardinality(ahead) < amount % n THEN 1 ELSE 0)

ClaimedShare(xs, amount, t) ==
    IF totalShares(xs) = 0 THEN ClaimedEven(xs, amount, t)
    ELSE ClaimedProportional(xs, totalShares(xs), amount, t)

\* C1: after every edit the sum of the shares is the operation's intended
\* total: the pre-edit total for a percent edit (also when it is 0), the
\* requested total for a grand-total edit, and old total - old shares + new
\* shares for a direct share edit.
C1_TotalConserved ==
    /\ last.op = "setPct" => totalShares(holdings) = totalShares(last.prev)
    /\ last.op = "setTotal" => totalShares(holdings) = last.arg
    /\ last.op = "setShares" =>
          totalShares(holdings) =
             totalShares(last.prev) - sharesOf(last.prev, last.ticker) + Max(0, last.arg)

InitialHoldings ==
    <<[ticker |-> "AAPL", shares |-> 1], [ticker |-> "MSFT", shares |-> 1]>>

C2_Case ==
    /\ last.op = "setPct"
    /\ last.prev = InitialHoldings
    /\ last.ticker = "AAPL"
    /\ last.arg = 75

\* C2 (as stated): from {AAPL:1, MSFT:1}, setting AAPL to 75 percent ends
\* with {AAPL:2, MSFT:1}.
C2_Original ==
    C2_Case => holdings = <<[ticker |-> "AAPL", shares |-> 2], [ticker |-> "MSFT", shares |-> 1]>>

\* C2 (amended): from {AAPL:1, MSFT:1}, setting AAPL to 75 percent gives
\* AAPL ceil(0.75 * 2) = 2 shares and MSFT the 0 shares that remain of the
\* pre-edit total 2: the holdings end as {AAPL:2, MSFT:0}.
C2_Example ==
    C2_Case => holdings = <<[ticker |-> "AAPL", shares |-> 2], [ticker |-> "MSFT", shares |-> 0]>>

C2_Witness == C2_Case /\ totalShares(holdings) = 2

\* C3: a percent edit on holdings with a positive total T sets the edited
\* ticker to min(ceil(pct/100 * T), T) and gives every other ticker its
\* largest-remainder share of the rest in proportion to its current shares,
\* equal remainders going by ascending ticker name (an even split by name
\* when all others hold zero).
C3_PercentAllocation ==
    (last.op = "setPct" /\ totalShares(last.prev) >= 1) =>
        LET T == totalShares(last.prev)
            p == last.arg
            want == Min((p * T + 99) \div 100, T)
            others == SelectSeq(last.prev, LAMBDA x : x.ticker # last.ticker)
        IN  \A i \in DOMAIN holdings :
               holdings[i].shares =
                  IF holdings[i].ticker = last.ticker THEN want
                  ELSE ClaimedShare(others, T - want, holdings[i].ticker)

\* C4: a grand-total edit to T on non-empty holdings gives every ticker the
\* floor of shares / currentTotal * T plus at most one leftover unit,
\* leftover units going to the largest remainders and, among equal
\* remainders, by ascending ticker name; with a zero current total it is the
\* even split by name.
C4_RescaleAllocation ==
    (last.op = "setTotal" /\ last.prev # <<>>) =>
        \A i \in DOMAIN holdings :
           holdings[i].shares = ClaimedShare(last.prev, last.arg, holdings[i].ticker)

\* C5: every holding's shares value is a non-negative integer, in every state
\* reachable by additions, removals, share, percent and grand-total edits.
C5_SharesNonNegative ==
    \A i \in DOMAIN holdings : holdings[i].shares \in Nat

C5_Witness ==
    /\ last.op = "setShares"
    /\ last.arg < 0
    /\ sharesOf(last.prev, last.ticker) > 0
    /\ sharesOf(holdings, last.ticker) = 0

\* C6: after a percent edit of X to p on holdings with pre-edit total T, the
\* recomputed percent of X differs from p by less than one share's worth:
\* |shares_X / sum - p / 100| < 1 / T.
C6_PercentRoundTrip ==
    (last.op = "setPct" /\ totalShares(last.prev) >= 1) =>
        LET T == totalShares(last.prev)
            shown == pct(holdings, last.ticker)
        IN  Abs(shown[1] - last.arg * shown[2]) * T < 100 * shown[2]

\* C7: adding a ticker while every existing holding has exactly 1 share
\* leaves all holdings at 1 share; adding one while some holding differs
\* from 1 gives the new ticker 1 share and keeps every existing holding;
\* a removed ticker has no holding afterwards.
C7_SelectionSync ==
    /\ last.op = "add" =>
          IF \A i \in DOMAIN last.prev : last.prev[i].shares = 1
          THEN \A i \in DOMAIN holdings : holdings[i].shares = 1
          ELSE /\ sharesOf(holdings, last.ticker) = 1
               /\ \A i \in DOMAIN last.prev :
                     /\ IndexOf(holdings, last.prev[i].ticker) # 0
                     /\ sharesOf(holdings, last.prev[i].ticker) = last.prev[i].shares
    /\ last.op = "add" => IndexOf(holdings, last.ticker) = Len(holdings)
    /\ last.op = "remove" => IndexOf(holdings, last.ticker) = 0

C7_Witness ==
    /\ last.op = "add"
    /\ \E i \in DOMAIN last.prev : last.prev[i].shares > 1
    /\ \E i \in DOMAIN last.prev : last.prev[i].shares = 0
    /\ sharesOf(holdings, last.ticker) = 1

\* the arguments of the largest-remainder allocation of the last edit: the
\* holdings for a grand-total edit, the other tickers and what the edited
\* one leaves for a percent edit
allocCall ==
    IF last.op = "setTotal"
    THEN [xs |-> last.prev, denom |-> totalShares(last.prev), amount |-> Max(0, last.arg)]
    ELSE [xs |-> SelectSeq(last.prev, LAMBDA x : x.ticker # last.ticker),
          denom |-> totalShares(SelectSeq(last.prev, LAMBDA x : x.ticker # last.ticker)),
          amount |-> Max(1, totalShares(last.prev))
                        - desiredShares(Max(1, totalShares(last.prev)), last.arg)]
allocCase ==
    /\ last.op \in {"setTotal", "setPct"}
    /\ allocCall.xs # <<>>
    /\ allocCall.denom > 0

\* C30: in both largest-remainder allocations the leftover after flooring is
\* at least 0 and less than the number of tickers allocated, so the loop ends
\* without taking its wrap-around branch, and every ticker ends with the
\* floor of its exact proportional share or one more.
C30_LeftoverBelowCount ==
    allocCase =>
        /\ leftoverOf(allocCall.xs, allocCall.denom, allocCall.amount) >= 0
        /\ leftoverOf(allocCall.xs, allocCall.denom, allocCall.amount) < Len(allocCall.xs)
        /\ ~loopWraps(Len(allocCall.xs), 0,
                      leftoverOf(allocCall.xs, allocCall.denom, allocCall.amount))
        /\ \A i \in DOMAIN allocCall.xs :
              sharesOf(holdings, allocCall.xs[i].ticker)
                 - ((allocCall.xs[i].shares * allocCall.amount) \div allocCall.denom)
                 \in {0, 1}

\* `next` of the sync effect: the selected tickers in order, each with its
\* previous shares or, when it had none, 1
nextHoldings(prev, tks) ==
    [i \in DOMAIN tks |->
        [ticker |-> tks[i],
         shares |-> IF IndexOf(prev, tks[i]) # 0 THEN prev[IndexOf(prev, tks[i])].shares
                    ELSE 1]]

\* C28: after any sequence of selection changes and share edits the holdings
\* are exactly the selected tickers in selection order, and a selection change
\* that only adds never changes the shares of a ticker already held: what the
\* effect returns, its "reset all to 1" branch included, is `next`.
C28_ResetBranchIsPlain ==
    /\ Len(holdings) = Len(tickers)
    /\ \A i \in DOMAIN holdings : holdings[i].ticker = tickers[i]
    /\ last.op \in {"add", "remove"} => holdings = nextHoldings(last.prev, tickers)
    /\ last.op = "add" =>
          \A i \in DOMAIN last.prev : sharesOf(holdings, last.prev[i].ticker) = last.prev[i].shares

\* the reset branch was taken: a ticker was added to two holdings of 1 share
C28_Witness ==
    /\ last.op = "add"
    /\ Len(last.prev) = 2
    /\ \A i \in DOMAIN last.prev : last.prev[i].shares = 1
    /\ Len(holdings) = 3

\* ------------------------------------------------------ dates and times
\* A date key is a string of a ticker file.  An ISO date "YYYY-MM-DD" is
\* [iso |-> TRUE, y, m, d]; a label that `new Date` cannot parse ("Q1",
\* "Q2", ...) is [iso |-> FALSE, y |-> 0, m |-> 0, d |-> k].  Times are in
\* hours since 1970-01-01T00:00Z; timezone offsets are whole hours.

IsLeap(y) == (y % 4 = 0 /\ y % 100 # 0) \/ y % 400 = 0
DaysInYear(y) == IF IsLeap(y) THEN 366 ELSE 365
\* m is 0-based, as in the Date API
DaysInMonth(y, m) ==
    IF m = 1 THEN (IF IsLeap(y) THEN 29 ELSE 28)
    ELSE IF m \in {3, 5, 8, 10} THEN 30 ELSE 31

\* ECMAScript DayFromYear
DaysBeforeYear(y) ==
    365 * (y - 1970) + ((y - 1969) \div 4) - ((y - 1901) \div 100) + ((y - 1601) \div 400)
RECURSIVE DaysBeforeMonth(_, _)
DaysBeforeMonth(y, m) ==
    IF m <= 0 THEN 0 ELSE DaysBeforeMonth(y, m - 1) + DaysInMonth(y, m - 1)

\* ECMAScript MakeDay: months outside 0..11 carry into the year, the day
\* of the month is added as a plain offset (so day 0 or 31 rolls over)
MakeDay(y, m, d) ==
    LET ym == y + (m \div 12)
        mn == m % 12
    IN  DaysBeforeYear(ym) + DaysBeforeMonth(ym, mn) + d - 1

RECURSIVE YearOfDay(_, _)
YearOfDay(n, y) == IF n < DaysBeforeYear(y + 1) THEN y ELSE YearOfDay(n, y + 1)
RECURSIVE MonthOfDay(_, _, _)
MonthOfDay(n, y, m) ==
    IF n < DaysBeforeMonth(y, m + 1) THEN m ELSE MonthOfDay(n, y, m + 1)

\* the local-time fields of a time value in a runtime at UTC + tz hours
LocalFields(t, tz) ==
    LET lt == t + tz
        day == lt \div 24
        inMonth(y, inYear, m) ==
            [y |-> y, m |-> m, d |-> inYear - DaysBeforeMonth(y, m) + 1, h |-> lt % 24]
        inYearOf(y, inYear) == inMonth(y, inYear, MonthOfDay(inYear, y, 0))
        fields(y) == inYearOf(y, day - DaysBeforeYear(y))
    IN  fields(YearOfDay(day, 1970 + (day \div 366)))

\* new Date(y, m, d) with the local hour h, as a time value
FromLocal(y, m, d, h, tz) == MakeDay(y, m, d) * 24 + h - tz

getFullYear(t, tz) == LocalFields(t, tz).y
setFullYear(t, y, tz) ==
    LET set(f) == FromLocal(y, f.m, f.d, f.h, tz) IN set(LocalFields(t, tz))
setMonth(t, m, tz) ==
    LET set(f) == FromLocal(f.y, m, f.d, f.h, tz) IN set(LocalFields(t, tz))
setDate(t, d, tz) ==
    LET set(f) == FromLocal(f.y, f.m, d, f.h, tz) IN set(LocalFields(t, tz))

\* new Date(d).getTime(): an ISO date is midnight UTC, anything else NaN
parseDate(k) ==
    IF k.iso THEN [finite |-> TRUE, t |-> MakeDay(k.y, k.m - 1, k.d) * 24]
    ELSE [finite |-> FALSE, t |-> 0]

shiftDate(d, days, months, years, tz) ==
    LET byDays(o) ==
            IF days # 0 THEN setDate(o, LocalFields(o, tz).d + days, tz) ELSE o
        byMonths(o) ==
            byDays(IF months # 0 THEN setMonth(o, LocalFields(o, tz).m + months, tz) ELSE o)
    IN  byMonths(IF years # 0 THEN setFullYear(d, getFullYear(d, tz) + years, tz) ELSE d)

RangeKeys == {"1D", "5D", "6M", "YTD", "1Y", "5Y", "ALL"}

\* rangeStart: null for ALL, otherwise the cutoff time
rangeStart(end, key, tz) ==
    IF key = "ALL" THEN [null |-> TRUE, t |-> 0]
    ELSE [null |-> FALSE,
          t |-> IF key = "1D" THEN shiftDate(end, 0 - 1, 0, 0, tz)
                ELSE IF key = "5D" THEN shiftDate(end, 0 - 5, 0, 0, tz)
                ELSE IF key = "6M" THEN shiftDate(end, 0, 0 - 6, 0, tz)
                ELSE IF key = "YTD" THEN FromLocal(getFullYear(end, tz), 0, 1, 0, tz)
                ELSE IF key = "1Y" THEN shiftDate(end, 0, 0, 0 - 1, tz)
                ELSE shiftDate(end, 0, 0, 0 - 5, tz)]

\* the first n indices instead of the last
firstIndices(len, n) == [k \in 1 .. n |-> k - 1]
\* Array.from({ length: n }, (_, k) => len - n + k): the last n indices
lastIndices(len, n) == [k \in 1 .. n |-> len - n + (k - 1)]

\* idx.length < 2 && dates.length >= 2
tooFewLoose(n, len) == n < 1 /\ len >= 2
tooFew(n, len) == n < 2 /\ len >= 2

\* indicesForRange; indices are 0-based as in the source
indicesForRange(dates, key, tz) ==
    IF Len(dates) = 0 THEN <<>>
    ELSE
      LET all == [k \in DOMAIN dates |-> [i |-> k - 1, t |-> parseDate(dates[k]).t,
                                          finite |-> parseDate(dates[k]).finite]]
          widen(idx) ==
              IF tooFew(Len(idx), Len(dates))
              THEN lastIndices(Len(dates),
                      Min(Len(dates), IF key = "1D" THEN 2 ELSE IF key = "5D" THEN 6 ELSE 12))
              ELSE idx
          indices(kept) == widen([k \in DOMAIN kept |-> kept[k].i])
          cut(ts, start) ==
              indices(IF start.null THEN ts ELSE SelectSeq(ts, LAMBDA x : x.t >= start.t))
          window(ts) == cut(ts, rangeStart(ts[Len(ts)].t, key, tz))
          parsed(ts0) ==
              IF Len(ts0) = 0
              THEN lastIndices(Len(dates),
                      Min(Len(dates),
                          IF key = "1D" THEN 2 ELSE IF key = "5D" THEN 6 ELSE Len(dates)))
              ELSE window(SortStable(ts0, "time"))
      IN  parsed(SelectSeq(all, LAMBDA x : x.finite))

\* ------------------------------------------------ the range windower alone
\* Calendars come from unionSortedDates: sorted by localeCompare and without
\* duplicates.  ISO dates sort chronologically and before the labels.
MaxLabels == 8      \* most unparseable labels in a calendar
Iso(y, m, d) == [iso |-> TRUE, y |-> y, m |-> m, d |-> d]
Label(k) == [iso |-> FALSE, y |-> 0, m |-> 0, d |-> k]
IsoPool ==
    << Iso(2015, 12, 31), Iso(2019, 12, 31), Iso(2020, 1, 1), Iso(2020, 6, 30),
       Iso(2020, 12, 30), Iso(2020, 12, 31) >>
TzOffsets == {0 - 5, 0, 9}

\* the sorted calendar made of the pool dates chosen by `pick` and k labels
CalendarOf(pick, k) ==
    SelectSeq(IsoPool, LAMBDA x : x \in {IsoPool[i] : i \in pick})
       \o [j \in 1 .. k |-> Label(j)]

InitRange ==
    /\ tickers = <<>>
    /\ holdings = <<>>
    /\ last = [op |-> "init", ticker |-> "", arg |-> 0, prev |-> <<>>]
    /\ \E pick \in SUBSET DOMAIN IsoPool, k \in 0 .. MaxLabels : calendar = CalendarOf(pick, k)
    /\ rangeKey \in RangeKeys
    /\ tzOffset \in TzOffsets
    /\ selIdx = <<>>
    /\ files = <<>>
    /\ data = NullData
    /\ portfolio = NullIndex
    /\ kpi = ZeroKpi
    /\ riskIdle
    /\ shellIdle
    /\ loadIdle

\* selIdx = indicesForRange(data.dates, rangeKey)
ComputeRange ==
    /\ last.op = "init"
    /\ selIdx' = indicesForRange(calendar, rangeKey, tzOffset)
    /\ last' = [op |-> "range", ticker |-> "", arg |-> 0, prev |-> <<>>]
    /\ UNCHANGED <<tickers, holdings, calendar, rangeKey, tzOffset, files, data,
                   portfolio, kpi>>
    /\ riskUnchanged
    /\ shellUnchanged
    /\ loadUnchanged

NextRange == ComputeRange

SpecRange == InitRange /\ [][NextRange]_vars

\* C8: for a calendar with at least 2 entries and any range key,
\* indicesForRange returns at least 2 indices, each a valid position.
C8_WindowPlottable ==
    (last.op = "range" /\ Len(calendar) >= 2) =>
        /\ Len(selIdx) >= 2
        /\ \A k \in DOMAIN selIdx : selIdx[k] \in 0 .. Len(calendar) - 1
        /\ \A j, k \in DOMAIN selIdx : j # k => selIdx[j] # selIdx[k]

\* the widening fallback acted: 12 of 13 or more entries were taken
C8_Witness ==
    /\ last.op = "range"
    /\ Len(calendar) >= 13
    /\ rangeKey = "6M"
    /\ Len(selIdx) = 12
    /\ \E k \in DOMAIN calendar : calendar[k].iso

yearEndOf(cal) == cal[Len(cal)]

\* C9: for an all-ISO calendar whose last date is December 31 of year Y and
\* that has at least three dates in year Y, key YTD selects exactly the indices
\* whose date is on or after Y-01-01, in every timezone.
C9_Case ==
    /\ last.op = "range"
    /\ rangeKey = "YTD"
    /\ Len(calendar) >= 2
    /\ \A k \in DOMAIN calendar : calendar[k].iso
    /\ yearEndOf(calendar).m = 12 /\ yearEndOf(calendar).d = 31
    /\ Cardinality({k \in DOMAIN calendar : calendar[k].y = yearEndOf(calendar).y}) >= 3

C9_YearToDate ==
    C9_Case =>
        Range(selIdx) = {k - 1 : k \in {j \in DOMAIN calendar :
                                          calendar[j].y = yearEndOf(calendar).y}}

\* C10: for a non-empty calendar, key ALL returns every index 0..length-1,
\* also when only some of the date keys parse.
C10_AllSelectsEverything ==
    (last.op = "range" /\ rangeKey = "ALL" /\ Len(calendar) >= 1) =>
        Range(selIdx) = 0 .. Len(calendar) - 1

\* C25: for a calendar sorted ascending whose dates all parse or all fail to
\* parse, and every range key, the indices indicesForRange returns are
\* strictly ascending and contiguous and end at the last index of the
\* calendar: the window is a suffix of the calendar.
C25_Case ==
    /\ last.op = "range"
    /\ Len(calendar) >= 1
    /\ \/ \A k \in DOMAIN calendar : calendar[k].iso
       \/ \A k \in DOMAIN calendar : ~calendar[k].iso

C25_WindowIsSuffix ==
    C25_Case =>
        /\ Len(selIdx) >= 1
        /\ selIdx[Len(selIdx)] = Len(calendar) - 1
        /\ \A k \in 1 .. Len(selIdx) - 1 : selIdx[k + 1] = selIdx[k] + 1

\* the cutoff date left out the older dates of an all-ISO calendar
C25_Witness ==
    /\ C25_Case
    /\ rangeKey = "1Y"
    /\ Len(calendar) = 6
    /\ calendar[1].iso
    /\ selIdx = <<1, 2, 3, 4, 5>>

\* ------------------------------------- calendar builder and forward fill
\* A number of a ticker file is [fin |-> TRUE, v |-> n] or NaN; a JSON null
\* in a `close` array fails Number.isFinite like NaN does.  An entry of a
\* `dates` array that is not a string (a JSON null) is NullKey.
Num(n) == [fin |-> TRUE, v |-> n]
NaN == [fin |-> FALSE, v |-> 0]
NullKey == [iso |-> FALSE, y |-> 0, m |-> 0, d |-> 0]
\* typeof d === "string"
isString(d) == d # NullKey

\* for (const d of x.dates ?? []) if (typeof d === "string") s.add(d): a Set
\* keeps its elements in insertion order
addDates(s, ds) ==
    LET added == {i \in DOMAIN ds :
                    /\ isString(ds[i]) /\ ds[i] \notin Range(s)
                    /\ \A j \in 1 .. i - 1 : ds[j] # ds[i]}
    IN  s \o [k \in 1 .. Cardinality(added) |->
                ds[CHOOSE i \in added : Cardinality({j \in added : j <= i}) = k]]
RECURSIVE addSeries(_, _)
addSeries(s, series) ==
    IF series = <<>> THEN s
    ELSE addSeries(addDates(s, Head(series).dates), Tail(series))

unionSortedDatesUnsorted(series) == addSeries(<<>>, series)
\* [...s].sort((a, b) => a.localeCompare(b))
unionSortedDates(series) == SortStable(addSeries(<<>>, series), "date")

\* the loop of forwardFillSeries from position i on, `last` being the last
\* finite value seen (NaN while it is null)
RECURSIVE fillLagged(_, _, _)
fillLagged(cal, dateToValue, lastV) ==
    IF cal = <<>> THEN <<>>
    ELSE <<lastV>> \o
         fillLagged(Tail(cal), dateToValue,
                    IF Head(cal) \in DOMAIN dateToValue /\ dateToValue[Head(cal)].fin
                    THEN dateToValue[Head(cal)] ELSE lastV)
RECURSIVE fillFrom(_, _, _)
fillFrom(cal, dateToValue, lastV) ==
    IF cal = <<>> THEN <<>>
    ELSE LET emit(l) == <<l>> \o fillFrom(Tail(cal), dateToValue, l)
         IN  emit(IF Head(cal) \in DOMAIN dateToValue /\ dateToValue[Head(cal)].fin
                  THEN dateToValue[Head(cal)] ELSE lastV)

forwardFillSeriesLagged(cal, dateToValue) == fillLagged(cal, dateToValue, NaN)
\* the fill that starts from the first observation on the calendar
forwardFillSeriesHeadFilled(cal, dateToValue) ==
    fillFrom(cal, dateToValue,
             IF \E k \in DOMAIN cal : cal[k] \in DOMAIN dateToValue
             THEN dateToValue[cal[CHOOSE k \in DOMAIN cal :
                                     /\ cal[k] \in DOMAIN dateToValue
                                     /\ \A j \in 1 .. k - 1 : cal[j] \notin DOMAIN dateToValue]]
             ELSE NaN)
forwardFillSeries(cal, dateToValue) == fillFrom(cal, dateToValue, NaN)

\* the Map built in buildPricesDemoFromTickerFiles: for i < min(dates.length,
\* close.length), m.set(d, v) when d is a string and v is finite; a later
\* entry for the same date replaces an earlier one
dateMapOf(f) ==
    LET n == Min(Len(f.dates), Len(f.close))
        set(d) == {i \in 1 .. n : f.dates[i] = d /\ isString(d) /\ f.close[i].fin}
        lastOf(S) == CHOOSE i \in S : \A j \in S : j <= i
    IN  [d \in {f.dates[i] : i \in {j \in 1 .. n : set(f.dates[j]) # {}}} |->
            f.close[lastOf(set(d))]]

\* series[f.ticker.toUpperCase()] = forwardFillSeries(dates, m): a later file
\* of the same ticker replaces an earlier one
buildPricesDemoFromTickerFiles(fs) ==
    LET fileOf(t) == fs[CHOOSE i \in DOMAIN fs :
                          fs[i].ticker = t /\ \A j \in DOMAIN fs : fs[j].ticker = t => j <= i]
        build(dates) ==
            [null |-> FALSE,
             dates |-> dates,
             series |-> [t \in {fs[i].ticker : i \in DOMAIN fs} |->
                           forwardFillSeries(dates, dateMapOf(fileOf(t)))]]
    IN  build(unionSortedDates(fs))

\* ------------------------------------------- the price dataset builder alone
MaxPoints == 2      \* most entries in one file's dates / close arrays
KeyPool == {Iso(2020, 1, 1), Iso(2020, 1, 2), Iso(2020, 1, 3)}
ClosePool == {Num(1), Num(2), NaN}

\* files with their entries in any order, with repeated dates and non-finite
\* closes; the first file of a load may also hold null dates and any close,
\* a second one holds string dates and the closes 2 and NaN
FilePool(t) ==
    LET keys == IF t = Options[1] THEN KeyPool \cup {NullKey} ELSE KeyPool
        closes == IF t = Options[1] THEN ClosePool ELSE ClosePool \ {Num(1)}
    IN  {[ticker |-> t, dates |-> ds, close |-> cs] :
            <<ds, cs>> \in UNION {[1 .. n -> keys] \X [1 .. n -> closes] : n \in 0 .. MaxPoints}}

InitBuild ==
    /\ tickers = <<>>
    /\ holdings = <<>>
    /\ last = [op |-> "init", ticker |-> "", arg |-> 0, prev |-> <<>>]
    /\ calendar = NoCal
    /\ rangeKey = "ALL"
    /\ tzOffset = 0
    /\ selIdx = <<>>
    /\ \E wanted \in {<<>>, <<"AAPL">>, <<"AAPL", "GOOG">>} :
          files \in {fs \in [DOMAIN wanted -> UNION {FilePool(t) : t \in Range(wanted)}] :
                       \A i \in DOMAIN wanted : fs[i].ticker = wanted[i]}
    /\ data = NullData
    /\ portfolio = NullIndex
    /\ kpi = ZeroKpi
    /\ riskIdle
    /\ shellIdle
    /\ loadIdle

\* setData(buildPricesDemoFromTickerFiles(files))
BuildPrices ==
    /\ last.op = "init"
    /\ data' = buildPricesDemoFromTickerFiles(files)
    /\ last' = [op |-> "build", ticker |-> "", arg |-> 0, prev |-> <<>>]
    /\ UNCHANGED <<tickers, holdings, calendar, rangeKey, tzOffset, selIdx, files,
                   portfolio, kpi>>
    /\ riskUnchanged
    /\ shellUnchanged
    /\ loadUnchanged

NextBuild == BuildPrices

SpecBuild == InitBuild /\ [][NextBuild]_vars

RECURSIVE Reverse(_)
Reverse(s) == IF s = <<>> THEN <<>> ELSE Append(Reverse(Tail(s)), Head(s))

\* C11: the calendar built from the files is strictly ascending, its
\* elements are exactly the string date keys of all files, it is the same
\* for the files in reverse order and for every file's entries in reverse
\* order, building a calendar from it alone returns it, and no files give
\* the empty calendar.
C11_CalendarUnion ==
    last.op = "build" =>
        /\ \A i, j \in DOMAIN data.dates : i < j => dateCompare(data.dates[i], data.dates[j]) < 0
        /\ Range(data.dates) =
              {d \in UNION {Range(files[i].dates) : i \in DOMAIN files} : isString(d)}
        /\ unionSortedDates(Reverse(files)) = data.dates
        /\ unionSortedDates([i \in DOMAIN files |->
                               [dates |-> Reverse(files[i].dates)]]) = data.dates
        /\ unionSortedDates(<<[dates |-> data.dates]>>) = data.dates
        /\ files = <<>> => data.dates = <<>>

\* two files, one with its dates out of order, sharing a date
C11_Witness ==
    /\ last.op = "build"
    /\ Len(files) = 2
    /\ Len(files[1].dates) = 2
    /\ dateCompare(files[1].dates[1], files[1].dates[2]) > 0
    /\ isString(files[1].dates[2])
    /\ files[1].dates[1] \in Range(files[2].dates)
    /\ Len(data.dates) = 3

\* C12: aligning an aligned series, paired with the calendar it was aligned
\* onto, onto that calendar again returns the same series at every index,
\* leading NaN included.
C12_FillIdempotent ==
    last.op = "build" =>
        \A t \in DOMAIN data.series :
            forwardFillSeries(data.dates,
                dateMapOf([dates |-> data.dates, close |-> data.series[t]]))
              = data.series[t]

\* a series with a leading NaN and a carried-forward value
C12_Witness ==
    /\ last.op = "build"
    /\ \E t \in DOMAIN data.series :
          /\ Len(data.series[t]) = 3
          /\ ~data.series[t][1].fin
          /\ data.series[t][2].fin
          /\ data.series[t][3] = data.series[t][2]

\* the calendar positions dated no later than position i at which the file
\* f has a finite observation
observedUpTo(f, i) ==
    {j \in DOMAIN data.dates :
        /\ dateCompare(data.dates[j], data.dates[i]) <= 0
        /\ data.dates[j] \in DOMAIN dateMapOf(f)}
latestOf(S) == CHOOSE j \in S : \A k \in S : dateCompare(data.dates[k], data.dates[j]) <= 0

\* C22: forwardFillSeries returns one value per calendar date; the value at
\* index i is the observation at the latest calendar date <= calendar[i] that
\* has a finite observation, or NaN when there is none, and it is never an
\* observation dated after calendar[i] unless an earlier one has that value.
C22_LatestPriorObservation ==
    last.op = "build" =>
        \A k \in DOMAIN files :
            /\ Len(data.series[files[k].ticker]) = Len(data.dates)
            /\ \A i \in DOMAIN data.dates :
                  /\ data.series[files[k].ticker][i]
                        = IF observedUpTo(files[k], i) = {} THEN NaN
                          ELSE dateMapOf(files[k])[data.dates[latestOf(observedUpTo(files[k], i))]]
                  /\ \A j \in DOMAIN data.dates :
                        (/\ dateCompare(data.dates[j], data.dates[i]) > 0
                         /\ data.dates[j] \in DOMAIN dateMapOf(files[k])
                         /\ dateMapOf(files[k])[data.dates[j]]
                               = data.series[files[k].ticker][i])
                            => \E e \in observedUpTo(files[k], i) :
                                  dateMapOf(files[k])[data.dates[e]]
                                     = data.series[files[k].ticker][i]

\* a file observed on the first and the last of three dates, with different
\* values: the middle date, which another file brings, carries the first
C22_Witness ==
    /\ last.op = "build"
    /\ Len(data.dates) = 3
    /\ \E k \in DOMAIN files :
          /\ data.dates[1] \in DOMAIN dateMapOf(files[k])
          /\ data.dates[2] \notin DOMAIN dateMapOf(files[k])
          /\ data.dates[3] \in DOMAIN dateMapOf(files[k])
          /\ dateMapOf(files[k])[data.dates[1]] # dateMapOf(files[k])[data.dates[3]]
          /\ data.series[files[k].ticker][2] = dateMapOf(files[k])[data.dates[1]]

\* --------------------------------------------------- the portfolio index
\* Weights and index values are doubles.  They are kept in fixed point, as
\* multiples of 1 / Unit; the share counts and prices explored below are
\* powers of two, so that every quotient, product and sum the code forms is
\* a multiple of 1 / Unit and is exact in binary floating point as well.
Unit == Pow2(6)

\* weights: holdings.map(h => ({ ticker, w: h.shares / (totalShares || 1) }))
weightsOf(hs) ==
    LET over(denom) ==
            [i \in DOMAIN hs |->
                [ticker |-> hs[i].ticker, w |-> (hs[i].shares * Unit) \div denom]]
    IN  over(IF totalShares(hs) = 0 THEN 1 ELSE totalShares(hs))

\* activeWeights: weights.filter(w => set.has(w.ticker)) for the active tickers
activeWeights(hs, tks) == SelectSeq(weightsOf(hs), LAMBDA x : x.ticker \in Range(tks))

\* shown: tickers.filter(t => t in data.series)
shown(d, tks) == IF d.null THEN <<>> ELSE SelectSeq(tks, LAMBDA t : t \in DOMAIN d.series)

\* datesR: selIdx.map(i => data.dates[i]).filter(d => typeof d === "string")
datesR(d, idx) ==
    IF d.null THEN <<>>
    ELSE SelectSeq([k \in DOMAIN idx |->
                      IF idx[k] + 1 \in DOMAIN d.dates THEN d.dates[idx[k] + 1] ELSE NullKey],
                   isString)

\* firstFinite(xs) ?? 1
firstFiniteOr1(xs) ==
    IF \E k \in DOMAIN xs : xs[k].fin
    THEN xs[CHOOSE k \in DOMAIN xs : xs[k].fin /\ \A j \in 1 .. k - 1 : ~xs[j].fin].v
    ELSE 1

\* one entry of the memo `series`: the ticker's windowed values, each
\* (v / base) * 100, or v itself when base is 0
windowedIndex(d, t, idx) ==
    LET yR == [k \in DOMAIN idx |->
                 IF idx[k] + 1 \in DOMAIN d.series[t] THEN d.series[t][idx[k] + 1] ELSE NaN]
        scaled(base) ==
            [k \in DOMAIN yR |->
                IF yR[k].fin
                THEN Num(IF base # 0 THEN ((yR[k].v * Unit) \div base) * 100
                         ELSE yR[k].v * Unit)
                ELSE NaN]
    IN  [t |-> t, idx |-> scaled(firstFiniteOr1(yR))]

seriesOf(d, tks, idx) ==
    IF d.null THEN <<>>
    ELSE [k \in DOMAIN shown(d, tks) |-> windowedIndex(d, shown(d, tks)[k], idx)]

\* wmap.get(t) ?? 0
wmapGet(ws, t) ==
    IF \E i \in DOMAIN ws : ws[i].ticker = t
    THEN ws[CHOOSE i \in DOMAIN ws :
               ws[i].ticker = t /\ \A j \in DOMAIN ws : ws[j].ticker = t => j <= i].w
    ELSE 0

\* the weighted sum of the loop over `series`, for wSum > 0
weightedSum(series, ws, wSum, n) ==
    [null |-> FALSE,
     values |-> [i \in 1 .. n |->
                   SeqSum([k \in DOMAIN series |->
                             ((IF i \in DOMAIN series[k].idx /\ series[k].idx[i].fin
                               THEN series[k].idx[i].v ELSE 0)
                              * ((wmapGet(ws, series[k].t) * Unit) \div wSum)) \div Unit])]]

portfolioOfZeroFilled(d, series, ws, n) ==
    IF d.null \/ series = <<>> THEN [null |-> FALSE, values |-> [i \in 1 .. n |-> 0]]
    ELSE LET sum(wSum) ==
                 IF wSum <= 0 THEN [null |-> FALSE, values |-> [i \in 1 .. n |-> 0]]
                 ELSE weightedSum(series, ws, wSum, n)
         IN  sum(SeqSum([k \in DOMAIN series |-> wmapGet(ws, series[k].t)]))

\* the memo `portfolio`; n is datesR.length
portfolioOf(d, series, ws, n) ==
    IF d.null \/ series = <<>> THEN NullIndex
    ELSE LET sum(wSum) ==
                 IF wSum <= 0 THEN NullIndex ELSE weightedSum(series, ws, wSum, n)
         IN  sum(SeqSum([k \in DOMAIN series |-> wmapGet(ws, series[k].t)]))

\* ------------------------------------------------ the price chart alone
\* The selection is one or two tickers.  Each has either no file (a missing
\* ticker is ignored by the load) or a file holding some of three dates in
\* order, each with a close that is a power of two.
MaxPriceExp == 1    \* prices are 2^0 .. 2^MaxPriceExp
MaxShareExp == 2    \* share counts are 0 or 2^0 .. 2^MaxShareExp
ChartDates == <<Iso(2020, 1, 1), Iso(2020, 6, 30), Iso(2020, 12, 31)>>
PricePool == {Num(Pow2(k)) : k \in 0 .. MaxPriceExp}
SharePool == {0} \cup {Pow2(k) : k \in 0 .. MaxShareExp}
ChartKeys == {"1D", "6M", "ALL"}

ChartFilePool(t) ==
    {[ticker |-> t,
      dates |-> SelectSeq(ChartDates, LAMBDA x : x \in DOMAIN c),
      close |-> [k \in DOMAIN SelectSeq(ChartDates, LAMBDA x : x \in DOMAIN c) |->
                   c[SelectSeq(ChartDates, LAMBDA x : x \in DOMAIN c)[k]]]] :
        c \in UNION {[S -> PricePool] : S \in SUBSET Range(ChartDates)}}

InitChart ==
    /\ tickers \in {<<"AAPL">>, <<"AAPL", "GOOG">>}
    /\ holdings \in {hs \in [DOMAIN tickers -> [ticker : Range(tickers), shares : SharePool]] :
                        /\ \A i \in DOMAIN tickers : hs[i].ticker = tickers[i]
                        /\ \A i, j \in DOMAIN tickers :
                              hs[i].shares = hs[j].shares
                                 \/ hs[i].shares = 0 \/ hs[j].shares = 0}
    /\ last = [op |-> "init", ticker |-> "", arg |-> 0, prev |-> <<>>]
    /\ calendar = NoCal
    /\ rangeKey \in ChartKeys
    /\ tzOffset = 0
    /\ selIdx = <<>>
    /\ \E present \in SUBSET Range(tickers) :
          files \in {fs \in [1 .. Cardinality(present) ->
                                UNION {ChartFilePool(t) : t \in present}] :
                       \A i \in DOMAIN fs :
                           fs[i].ticker = SelectSeq(tickers, LAMBDA t : t \in present)[i]}
    /\ data = NullData
    /\ portfolio = NullIndex
    /\ kpi = ZeroKpi
    /\ riskIdle
    /\ shellIdle
    /\ loadIdle

\* the load resolves: setData({ dates: [], series: {} }) or
\* setData(buildPricesDemoFromTickerFiles(files)); the render that follows
\* recomputes the memos shown, selIdx, datesR, series and portfolio
RenderChart ==
    /\ last.op = "init"
    /\ data' = IF Len(files) = 0 THEN [null |-> FALSE, dates |-> <<>>, series |-> <<>>]
               ELSE buildPricesDemoFromTickerFiles(files)
    /\ selIdx' = indicesForRange(data'.dates, rangeKey, tzOffset)
    /\ portfolio' = portfolioOf(data', seriesOf(data', tickers, selIdx'),
                                activeWeights(holdings, tickers),
                                Len(datesR(data', selIdx')))
    /\ last' = [op |-> "chart", ticker |-> "", arg |-> 0, prev |-> <<>>]
    /\ UNCHANGED <<tickers, holdings, calendar, rangeKey, tzOffset, files, kpi>>
    /\ riskUnchanged
    /\ shellUnchanged
    /\ loadUnchanged

NextChart == RenderChart

SpecChart == InitChart /\ [][NextChart]_vars

\* the shares held in the tickers that have a series in the dataset
presentShares ==
    SeqSum([i \in DOMAIN holdings |->
              IF holdings[i].ticker \in DOMAIN data.series THEN holdings[i].shares ELSE 0])

\* C13: the portfolio index is null whenever no selected ticker has a series
\* in the loaded dataset and whenever the weights of the tickers that have
\* one sum to zero.
C13_NullWhenNoWeight ==
    (last.op = "chart"
       /\ (Range(tickers) \cap DOMAIN data.series = {} \/ presentShares = 0))
        => portfolio.null

\* the only ticker with shares has no file, the one with a file has none
C13_Witness ==
    /\ last.op = "chart"
    /\ Range(tickers) \cap DOMAIN data.series # {}
    /\ Len(data.dates) >= 2
    /\ totalShares(holdings) > 0
    /\ presentShares = 0
    /\ portfolio.null

\* C14: the portfolio index is null whenever the windowed calendar has fewer
\* than 2 time points.
C14_NullWhenTooShort ==
    (last.op = "chart" /\ Len(datesR(data, selIdx)) < 2) => portfolio.null

\* C15: every non-null portfolio index starts at 100, also when a present
\* ticker has no observation yet at the first date of the window.
C15_StartsAtBase ==
    (last.op = "chart" /\ ~portfolio.null /\ Len(portfolio.values) >= 1)
        => portfolio.values[1] = 100 * Unit

\* ------------------------------------------------------- the KPI calculator
\* totalReturn and maxDrawdown are doubles of the form a / b - 1.  The model
\* keeps such a double as the reduced fraction <<a - b, b>> it is the
\* rounding of, <<0, 1>> for 0 and <<0, 0>> for NaN: for the small integers
\* explored here two of these doubles are equal, or ordered, exactly as
\* their fractions are.  The series values are non-negative or NaN.
RECURSIVE GCD(_, _)
GCD(a, b) == IF b = 0 THEN Abs(a) ELSE GCD(b, a % b)
RetNaN == <<0, 0>>
\* a / b - 1 for b > 0
Ret(a, b) ==
    IF ~a.fin \/ ~b.fin \/ b.v = 0 THEN RetNaN
    ELSE <<(a.v - b.v) \div GCD(a.v - b.v, b.v), b.v \div GCD(a.v - b.v, b.v)>>
\* x < y on these doubles; false when either is NaN
RetLess(x, y) == x[2] # 0 /\ y[2] # 0 /\ x[1] * y[2] < y[1] * x[2]
\* a > b on series values; false when either is NaN
NumGreater(a, b) == a.fin /\ b.fin /\ a.v > b.v

\* for (const v of series) { if (v > peak) peak = v;
\*   const dd = peak > 0 ? v / peak - 1 : 0; if (dd < maxDD) maxDD = dd; }
RECURSIVE drawdownLoop(_, _, _)
drawdownLoop(series, peak, maxDD) ==
    IF series = <<>> THEN maxDD
    ELSE LET next(pk) ==
                 LET keep(dd) == IF RetLess(dd, maxDD) THEN dd ELSE maxDD
                 IN  drawdownLoop(Tail(series), pk,
                        keep(IF NumGreater(pk, Num(0)) THEN Ret(Head(series), pk)
                             ELSE <<0, 1>>))
         IN  next(IF NumGreater(Head(series), peak) THEN Head(series) ELSE peak)

\* Math.pow(1 + totalReturn, 1 / years) - 1 with
\* years = Math.max((d1 - d0) / (1000 * 60 * 60 * 24 * 365.25), 1 / 365.25),
\* kept as "NaN", "0", "gain" or "loss".  years is NaN when a date does not
\* parse (Math.max of NaN is NaN) and otherwise positive; Math.pow returns
\* NaN for a NaN exponent whatever the base, and 1 for the base 1.
cagrOf(totalReturn, d0, d1) ==
    IF ~parseDate(d0).finite \/ ~parseDate(d1).finite THEN "NaN"
    ELSE IF totalReturn = RetNaN THEN "NaN"
    ELSE IF totalReturn[1] = 0 THEN "0"
    ELSE IF totalReturn[1] > 0 THEN "gain" ELSE "loss"

kpisFromIndex(series, dates) ==
    IF Len(series) < 2 \/ Len(dates) < 2 THEN ZeroKpi
    ELSE LET result(totalReturn) ==
                 [totalReturn |-> totalReturn,
                  cagr |-> cagrOf(totalReturn, dates[1], dates[Len(dates)]),
                  maxDrawdown |-> drawdownLoop(series, series[1], <<0, 1>>)]
         IN  result(IF NumGreater(series[1], Num(0))
                    THEN Ret(series[Len(series)], series[1]) ELSE <<0, 1>>)

\* ----------------------------------------------- the KPI calculator alone
\* The series is an index handed to kpisFromIndex (the portfolio, benchIdx or
\* a candidate's idx, whose leading entries are NaN when the ticker starts
\* inside the window), with its dates: ISO dates or unparseable labels.
MaxKpiLen == 4      \* longest series
KpiValues == {NaN, Num(0), Num(90), Num(100), Num(110), Num(120)}
KpiDates(n, iso) == [k \in 1 .. n |-> IF iso THEN Iso(2020, k, 1) ELSE Label(k)]

InitKpi ==
    /\ tickers = <<>>
    /\ holdings = <<>>
    /\ last = [op |-> "init", ticker |-> "", arg |-> 0, prev |-> <<>>]
    /\ \E n \in 0 .. MaxKpiLen, iso \in BOOLEAN :
          /\ calendar = KpiDates(n, iso)
          /\ \E vs \in [1 .. n -> KpiValues] : portfolio = [null |-> FALSE, values |-> vs]
    /\ rangeKey = "ALL"
    /\ tzOffset = 0
    /\ selIdx = <<>>
    /\ files = <<>>
    /\ data = NullData
    /\ kpi = ZeroKpi
    /\ riskIdle
    /\ shellIdle
    /\ loadIdle

\* kpisFromIndex(portfolio, datesR)
ComputeKpi ==
    /\ last.op = "init"
    /\ kpi' = kpisFromIndex(portfolio.values, calendar)
    /\ last' = [op |-> "kpi", ticker |-> "", arg |-> 0, prev |-> <<>>]
    /\ UNCHANGED <<tickers, holdings, calendar, rangeKey, tzOffset, selIdx, files, data,
                   portfolio>>
    /\ riskUnchanged
    /\ shellUnchanged
    /\ loadUnchanged

NextKpi == ComputeKpi

SpecKpi == InitKpi /\ [][NextKpi]_vars

\* the largest of the finite values among the first j
runningMax(vs, j) ==
    CHOOSE m \in {vs[i] : i \in 1 .. j} :
        \A i \in 1 .. j : ~NumGreater(vs[i], m)

\* C16: for a series of at least 2 values maxDrawdown <= 0, it is the drop
\* series[j] / series[i] - 1 for some i <= j with series[i] the maximum of
\* the values up to j, and it is 0 only if no value lies below a value before
\* it.
C16_DrawdownIsAPeakToTrough ==
    (last.op = "kpi" /\ Len(portfolio.values) >= 2) =>
        LET vs == portfolio.values IN
        /\ ~RetLess(<<0, 1>>, kpi.maxDrawdown)
        /\ \E j \in DOMAIN vs : \E i \in 1 .. j :
              /\ \A k \in 1 .. j : ~NumGreater(vs[k], vs[i])
              /\ Ret(vs[j], vs[i]) = kpi.maxDrawdown
        /\ kpi.maxDrawdown = <<0, 1>> =>
              \A j \in DOMAIN vs : \A i \in 1 .. j : ~NumGreater(vs[i], vs[j])

\* the minimum over positions of value / running-maximum - 1
ClaimedDrawdown(vs) ==
    LET dd(j) == Ret(vs[j], runningMax(vs, j))
    IN  IF \E j \in DOMAIN vs : dd(j) = RetNaN THEN RetNaN
        ELSE dd(CHOOSE j \in DOMAIN vs : \A k \in DOMAIN vs : ~RetLess(dd(k), dd(j)))

\* C17: (0, 0, 0) for fewer than 2 points; otherwise totalReturn is
\* last / first - 1 (0 if first <= 0) and maxDrawdown the minimum of
\* value / running-maximum - 1; [100, 110, 90, 120] gives totalReturn 0.20
\* and maxDrawdown 90 / 110 - 1; a flat series gives 0, cagr 0 and 0.
C17_KpiValues ==
    last.op = "kpi" =>
        LET vs == portfolio.values IN
        /\ Len(vs) < 2 => kpi = ZeroKpi
        /\ Len(vs) >= 2 =>
              /\ kpi.totalReturn =
                    IF vs[1].fin /\ vs[1].v <= 0 THEN <<0, 1>> ELSE Ret(vs[Len(vs)], vs[1])
              /\ kpi.maxDrawdown = ClaimedDrawdown(vs)
        /\ vs = <<Num(100), Num(110), Num(90), Num(120)>> =>
              /\ kpi.totalReturn = <<1, 5>>
              /\ kpi.maxDrawdown = <<0 - 2, 11>>
        /\ (Len(vs) >= 2 /\ \A k \in DOMAIN vs : vs[k] = Num(100)) =>
              kpi = ZeroKpi

\* ==================================================== risk-bucket matcher
\* A text is the sequence of its characters; a text that may be null or
\* undefined is a record [null, text].
Upper == <<"A", "B", "C", "D", "E", "F", "G", "H", "I", "J", "K", "L", "M",
           "N", "O", "P", "Q", "R", "S", "T", "U", "V", "W", "X", "Y", "Z">>
Lower == <<"a", "b", "c", "d", "e", "f", "g", "h", "i", "j", "k", "l", "m",
           "n", "o", "p", "q", "r", "s", "t", "u", "v", "w", "x", "y", "z">>
toLowerCase(cs) ==
    [k \in DOMAIN cs |->
        IF \E i \in DOMAIN Upper : Upper[i] = cs[k]
        THEN Lower[CHOOSE i \in DOMAIN Upper : Upper[i] = cs[k]] ELSE cs[k]]
RECURSIVE trimStart(_)
trimStart(cs) == IF cs # <<>> /\ Head(cs) = " " THEN trimStart(Tail(cs)) ELSE cs
RECURSIVE trimEnd(_)
trimEnd(cs) ==
    IF cs # <<>> /\ cs[Len(cs)] = " " THEN trimEnd(SubSeq(cs, 1, Len(cs) - 1)) ELSE cs
trim(cs) == trimEnd(trimStart(cs))
startsWith(cs, w) == Len(w) <= Len(cs) /\ SubSeq(cs, 1, Len(w)) = w
includes(cs, w) == \E i \in 0 .. Len(cs) - Len(w) : SubSeq(cs, i + 1, i + Len(w)) = w
\* the string of a text
RECURSIVE join(_)
join(cs) == IF cs = <<>> THEN "" ELSE Head(cs) \o join(Tail(cs))
Text(cs) == [null |-> FALSE, text |-> cs]
NullText == [null |-> TRUE, text |-> <<>>]
\* String(b ?? "")
orEmpty(b) == IF b.null THEN <<>> ELSE b.text

\* the words normalizeBucket looks for
LOW == <<"l", "o", "w">>
MED == <<"m", "e", "d">>
MEDIUM == <<"m", "e", "d", "i", "u", "m">>
MID == <<"m", "i", "d">>
HIGH == <<"h", "i", "g", "h">>
UNKNOWN == <<"u", "n", "k", "n", "o", "w", "n">>

\* the normalisation in which a label that matches none of low, medium and
\* high becomes unknown
normalizeBucketClosed(b) ==
    LET match(x) ==
            IF x = <<>> THEN "unknown"
            ELSE IF startsWith(x, LOW) THEN "low"
            ELSE IF startsWith(x, MED) THEN "medium"
            ELSE IF startsWith(x, HIGH) THEN "high"
            ELSE IF includes(x, LOW) THEN "low"
            ELSE IF includes(x, MEDIUM) \/ includes(x, MID) THEN "medium"
            ELSE IF includes(x, HIGH) THEN "high"
            ELSE "unknown"
    IN  match(toLowerCase(trim(orEmpty(b))))

normalizeBucket(b) ==
    LET match(x) ==
            IF x = <<>> THEN "unknown"
            ELSE IF startsWith(x, LOW) THEN "low"
            ELSE IF startsWith(x, MED) THEN "medium"
            ELSE IF startsWith(x, HIGH) THEN "high"
            ELSE IF includes(x, LOW) THEN "low"
            ELSE IF includes(x, MEDIUM) \/ includes(x, MID) THEN "medium"
            ELSE IF includes(x, HIGH) THEN "high"
            ELSE IF includes(x, UNKNOWN) THEN "unknown"
            ELSE join(x)
    IN  match(toLowerCase(trim(orEmpty(b))))

adjacentBuckets(b) ==
    IF b = "low" THEN <<"low", "medium">>
    ELSE IF b = "medium" THEN <<"medium", "low", "high">>
    ELSE IF b = "high" THEN <<"high", "medium">>
    ELSE <<"unknown", "low", "medium", "high">>

\* the keywords of fallbackBucketForTicker, in its four tests
LowWords ==
    {<<"b", "o", "n", "d">>,
     <<"t", "r", "e", "a", "s", "u", "r", "y">>,
     <<"t", "-", "b", "i", "l", "l">>,
     <<"m", "o", "n", "e", "y", " ", "m", "a", "r", "k", "e", "t">>,
     <<"c", "a", "s", "h">>}
DefensiveWords ==
    {<<"u", "t", "i", "l", "i", "t", "i", "e", "s">>,
     <<"c", "o", "n", "s", "u", "m", "e", "r", " ", "s", "t", "a", "p", "l", "e", "s">>,
     <<"d", "i", "v", "i", "d", "e", "n", "d">>}
HighWords ==
    {<<"e", "m", "e", "r", "g", "i", "n", "g">>,
     <<"c", "h", "i", "n", "a">>,
     <<"b", "i", "o", "t", "e", "c", "h">>,
     <<"s", "e", "m", "i", "c", "o", "n", "d", "u", "c", "t", "o", "r">>,
     <<"t", "e", "c", "h", "n", "o", "l", "o", "g", "y">>,
     <<"s", "e", "c", "t", "o", "r">>}
LeveragedWords ==
    {<<"l", "e", "v", "e", "r", "a", "g", "e", "d">>,
     <<"2", "x">>,
     <<"3", "x">>,
     <<"c", "r", "y", "p", "t", "o">>}

\* uniMap.get(t): the last row of the universe with that ticker, if any.
\* The tickers of the model are upper case, as toUpperCase leaves them.
hasRow(uni, t) == \E i \in DOMAIN uni.rows : uni.rows[i].ticker = t
uniMapGet(uni, t) ==
    uni.rows[CHOOSE i \in DOMAIN uni.rows :
                /\ uni.rows[i].ticker = t
                /\ \A j \in DOMAIN uni.rows : uni.rows[j].ticker = t => j <= i]

fallbackBucketForTicker(uni, t) ==
    LET test(hay) ==
            IF \E w \in LowWords : includes(hay, w) THEN "low"
            ELSE IF \E w \in DefensiveWords : includes(hay, w) THEN "low"
            ELSE IF \E w \in HighWords : includes(hay, w) THEN "high"
            ELSE IF \E w \in LeveragedWords : includes(hay, w) THEN "high"
            ELSE "medium"
    IN  test(IF hasRow(uni, t)
             THEN toLowerCase(orEmpty(uniMapGet(uni, t).assetClass)) \o <<" ">>
                     \o toLowerCase(orEmpty(uniMapGet(uni, t).name))
             ELSE <<" ">>)

\* the bucket a portfolio weight is added to in inferredRiskBucket
bucketOfWeight(uni, t) ==
    LET pick(nb) == IF nb # "unknown" THEN nb ELSE fallbackBucketForTicker(uni, t)
    IN  pick(normalizeBucket(IF hasRow(uni, t) THEN uniMapGet(uni, t).riskBucket
                             ELSE NullText))

\* byBucket.get(b) once the loop over the weights is done; bs[i] is the
\* bucket of the i-th weight
bucketTotal(ws, bs, b) ==
    SeqSum([i \in 1 .. Len(ws) |-> IF bs[i] = b THEN ws[i].w ELSE 0])
\* byBucket is a Map: its entries are visited in the order the buckets were
\* first set, and `ww > bestW` keeps the first bucket of the largest weight
firstLargest(ws, bs) ==
    bs[CHOOSE i \in 1 .. Len(ws) :
          /\ \A j \in 1 .. Len(ws) : bucketTotal(ws, bs, bs[j]) <= bucketTotal(ws, bs, bs[i])
          /\ \A j \in 1 .. i - 1 : bucketTotal(ws, bs, bs[j]) < bucketTotal(ws, bs, bs[i])]
inferredRiskBucket(ws, uni) ==
    IF ws = <<>> THEN "unknown"
    ELSE firstLargest(ws, [i \in 1 .. Len(ws) |-> bucketOfWeight(uni, ws[i].ticker)])

\* scored.sort((a, b) => b.kpi.totalReturn - a.kpi.totalReturn): the sort is
\* stable and every totalReturn is finite here
sortByReturn(rs) ==
    LET place(i) ==
            Cardinality({j \in DOMAIN rs :
                           \/ RetLess(rs[i].kpi.totalReturn, rs[j].kpi.totalReturn)
                           \/ j <= i /\ rs[j].kpi.totalReturn = rs[i].kpi.totalReturn})
    IN  [p \in DOMAIN rs |-> rs[CHOOSE i \in DOMAIN rs : place(i) = p]]

MaxWinners == 6     \* .slice(0, 6)

\* the memo `winners`.  d is prices, tks the portfolio tickers, pk the
\* portfolio KPI with pkNull telling that it is null, idx the memo selIdx.
winnersOf(d, uni, inferred, tks, bench, pkNull, pk, idx) ==
    IF d.null \/ uni.null THEN <<>>
    ELSE LET take(sorted) ==
                 LET cut(chosen) == SubSeq(chosen, 1, Min(MaxWinners, Len(chosen)))
                     beat == IF pkNull THEN <<>>
                             ELSE SelectSeq(sorted,
                                     LAMBDA r : RetLess(pk.totalReturn, r.kpi.totalReturn))
                 IN  cut(IF beat # <<>> THEN beat ELSE sorted)
             score(candidates) ==
                 SelectSeq([k \in DOMAIN candidates |->
                              [ticker |-> candidates[k].ticker,
                               riskBucket |-> candidates[k].riskBucket,
                               kpi |-> kpisFromIndex(
                                          windowedIndex(d, candidates[k].ticker, idx).idx,
                                          datesR(d, idx))]],
                           LAMBDA r : r.kpi.totalReturn # RetNaN)
         IN  take(sortByReturn(score(
                 SelectSeq(uni.rows,
                    LAMBDA r : /\ normalizeBucket(r.riskBucket)
                                     \in Range(adjacentBuckets(inferred))
                               /\ r.ticker \in DOMAIN d.series
                               /\ r.ticker \notin Range(tks)
                               /\ r.ticker # bench))))

\* ------------------------------------------- the benchmark card alone
\* The server holds stock files and benchmark files over three dates; a file
\* may be missing, and one may start late.  The universe file lists up to
\* nine rows, the first three with any of the labels below.
LabelPool ==
    {NullText,
     Text(<<" ", "L", "o", "w">>),
     Text(<<"H", "I", "G", "H", " ">>),
     Text(<<"M", "e", "d">>),
     Text(<<"M", "i", "d", " ", "c", "a", "p">>),
     Text(<<"B", "e", "l", "o", "w">>),
     Text(<<"M", "o", "d", "e", "r", "a", "t", "e">>),
     Text(<<"n", "/", "a", " ", "u", "n", "k", "n", "o", "w", "n">>)}
PortfolioLabels ==
    {NullText, Text(<<" ", "L", "o", "w">>), Text(<<"M", "o", "d", "e", "r", "a", "t", "e">>)}
priceFile(t, dir, ds, cs) ==
    [ticker |-> t, dir |-> dir, dates |-> ds, close |-> [k \in DOMAIN cs |-> Num(cs[k])]]
MsftFiles ==
    {<<>>, <<priceFile("MSFT", "stocks", ChartDates, <<1, 1, 2>>)>>,
     <<priceFile("MSFT", "stocks", Tail(ChartDates), <<1, 2>>)>>}
ServerPool ==
    {<<priceFile("AAPL", "stocks", ChartDates, a)>>
        \o <<priceFile("GOOG", "stocks", ChartDates, <<1, 1, 1>>)>>
        \o m
        \o <<priceFile("NVDA", "stocks", ChartDates, <<1, 2, 4>>)>>
        \o <<priceFile("AMZN", "stocks", ChartDates, <<1, 1, 2>>),
             priceFile("META", "stocks", ChartDates, <<1, 2, 2>>),
             priceFile("TSLA", "stocks", ChartDates, <<2, 2, 1>>),
             priceFile("KO", "stocks", ChartDates, <<4, 2, 1>>),
             priceFile("IBM", "stocks", ChartDates, <<4, 4, 2>>)>>
        \o q
        \o <<priceFile("SPY", "benchmarks", ChartDates, <<1, 1, 1>>)>> :
        a \in {<<1, 1, 2>>, <<2, 2, 1>>},
        m \in MsftFiles,
        q \in {<<>>, <<priceFile("QQQ", "benchmarks", ChartDates, <<1, 1, 2>>)>>}}
universeRow(t, name, asset, label) ==
    [ticker |-> t, name |-> name, assetClass |-> asset, riskBucket |-> label]
UniverseRows(a, g, m) ==
    <<universeRow("AAPL", Text(<<"A", "p", "p", "l", "e">>), Text(<<"E", "q", "u", "i", "t", "y">>), a),
      universeRow("GOOG", NullText, Text(<<"T", "e", "c", "h", "n", "o", "l", "o", "g", "y">>), g),
      universeRow("MSFT", NullText, NullText, m),
      universeRow("NVDA", NullText, NullText, Text(<<"H", "i", "g", "h">>)),
      universeRow("AMZN", NullText, NullText, Text(<<"M", "e", "d", "i", "u", "m">>)),
      universeRow("META", NullText, NullText, Text(<<"m", "e", "d">>)),
      universeRow("TSLA", NullText, NullText, Text(<<"H", "i", "g", "h">>)),
      universeRow("KO", NullText, NullText, Text(<<"L", "o", "w">>)),
      universeRow("IBM", NullText, NullText, Text(<<"M", "e", "d", "i", "u", "m">>)),
      universeRow("QQQ", NullText, NullText, Text(<<"M", "e", "d", "i", "u", "m">>))>>
UniverseSizes == {0, 3, 10}
UniversePool ==
    {[null |-> FALSE, rows |-> SubSeq(UniverseRows(a, g, m), 1, n)] :
        a \in PortfolioLabels, g \in {Text(<<"H", "i", "g", "h">>), Text(<<"M", "o", "d", "e", "r", "a", "t", "e">>)}, m \in LabelPool, n \in UniverseSizes}
\* benchmarks.json
BenchMeta == <<"QQQ", "SPY">>

InitRisk ==
    /\ tickers \in {<<>>, <<"AAPL">>, <<"AAPL", "GOOG">>}
    /\ holdings \in {hs \in [DOMAIN tickers -> [ticker : Range(tickers), shares : {1, 3}]] :
                        /\ \A i \in DOMAIN tickers : hs[i].ticker = tickers[i]
                        /\ SeqSum([i \in DOMAIN hs |-> hs[i].shares]) \in {0, 1, 2, 4}}
    /\ last = [op |-> "init", ticker |-> "", arg |-> 0, prev |-> <<>>]
    /\ calendar = NoCal
    /\ rangeKey \in {"6M", "ALL"}
    /\ tzOffset = 0
    /\ selIdx = <<>>
    /\ files \in ServerPool
    /\ data = NullData
    /\ portfolio = NullIndex
    /\ kpi = ZeroKpi
    /\ riskIdle
    /\ shellIdle
    /\ loadIdle

\* the files a load gets for the tickers ts from one directory, in the order
\* of ts; a ticker without a file is skipped (`catch { /* ignore missing */ }`)
loadedFiles(ts, dir) ==
    LET have == SelectSeq(ts, LAMBDA t : \E i \in DOMAIN files :
                                            files[i].ticker = t /\ files[i].dir = dir)
    IN  [k \in DOMAIN have |->
            files[CHOOSE i \in DOMAIN files :
                     files[i].ticker = have[k] /\ files[i].dir = dir]]
\* neededStocks: the portfolio tickers, then the universe tickers not yet in
\* the Set
neededStocks(tks, uni) ==
    tks \o SelectSeq([k \in DOMAIN uni.rows |-> uni.rows[k].ticker],
                     LAMBDA t : t \notin Range(tks))
\* setPrices of the card's effect
pricesOf(fs) ==
    IF fs = <<>> THEN [null |-> FALSE, dates |-> <<>>, series |-> <<>>]
    ELSE buildPricesDemoFromTickerFiles(fs)
\* the portfolio index PriceDemoChart hands to onComputed
chartPortfolio(d) ==
    portfolioOf(d, seriesOf(d, tickers, indicesForRange(d.dates, rangeKey, tzOffset)),
                activeWeights(holdings, tickers),
                Len(datesR(d, indicesForRange(d.dates, rangeKey, tzOffset))))
\* and its KPI; the index holds numbers only
chartKpi(d, p) ==
    kpisFromIndex([i \in DOMAIN p.values |-> Num(p.values[i])],
                  datesR(d, indicesForRange(d.dates, rangeKey, tzOffset)))

\* the memo `benchIdx`: the benchmark's windowed index, or null
benchIdxOf(d, bench, idx) ==
    IF d.null THEN NullIndex
    ELSE IF bench \notin DOMAIN d.series THEN NullIndex
    ELSE IF Len(d.series[bench]) < 2 \/ Len(idx) < 2 THEN NullIndex
    ELSE [null |-> FALSE,
          values |-> [k \in DOMAIN idx |-> windowedIndex(d, bench, idx).idx[k]]]

\* the memo `combined`: the three lists cut to the shortest of them.  dR is
\* the card's datesR, p the portfolio index the chart handed over.
combinedOf(d, p, bIdx, dR) ==
    LET cut(n) ==
            IF n < 2 THEN NullCombined
            ELSE [null |-> FALSE, dates |-> SubSeq(dR, 1, n),
                  port |-> SubSeq(p.values, 1, n), bench |-> SubSeq(bIdx.values, 1, n)]
    IN  IF d.null \/ p.null \/ bIdx.null THEN NullCombined
        ELSE cut(Min(Len(dR), Min(Len(p.values), Len(bIdx.values))))

\* The card's load settles, with uni the universe file (or the fetch fails),
\* the chart has handed over the portfolio and its KPI, the benchmark is one
\* of the available ones when there are any, and the memos are recomputed.
LoadCard ==
    /\ last.op = "init"
    /\ \E uni \in UniversePool \cup {NullUniverse} :
          /\ universe' = uni
          /\ data' = IF uni.null THEN NullData
                     ELSE pricesOf(loadedFiles(neededStocks(tickers, uni), "stocks")
                                      \o loadedFiles(BenchMeta, "benchmarks"))
    /\ selIdx' = IF data'.null THEN <<>> ELSE indicesForRange(data'.dates, rangeKey, tzOffset)
    /\ portfolio' = chartPortfolio(pricesOf(loadedFiles(tickers, "stocks")))
    /\ kpi' = IF portfolio'.null THEN ZeroKpi
              ELSE chartKpi(pricesOf(loadedFiles(tickers, "stocks")), portfolio')
    /\ \E b \in Range(BenchMeta) \cup {benchmark} :
          /\ IF data'.null \/ Range(BenchMeta) \cap DOMAIN data'.series = {}
             THEN b = benchmark ELSE b \in DOMAIN data'.series /\ b \in Range(BenchMeta)
          /\ benchmark' = b
    /\ riskBucket' = inferredRiskBucket(activeWeights(holdings, tickers), universe')
    /\ winners' = winnersOf(data', universe', riskBucket', tickers, benchmark',
                            portfolio'.null, kpi', selIdx')
    /\ last' = [op |-> "card", ticker |-> "", arg |-> 0, prev |-> <<>>]
    /\ UNCHANGED <<tickers, holdings, calendar, rangeKey, tzOffset, files>>
    /\ loadUnchanged
    /\ combined' = combinedOf(data', portfolio', benchIdxOf(data', benchmark', selIdx'),
                           datesR(data', selIdx'))
    /\ UNCHANGED <<cache, calls, draft, picker, aligned>>

NextRisk == LoadCard

SpecRisk == InitRisk /\ [][NextRisk]_vars

FourBuckets == {"low", "medium", "high", "unknown"}

\* C18: normalizeBucket returns one of exactly four values, low, medium, high
\* or unknown, for every free-text risk label, the empty and the null label
\* and the labels that match none of low / medium / high included.
C18_FourBuckets ==
    last.op = "card" =>
        \A i \in DOMAIN universe.rows :
            normalizeBucket(universe.rows[i].riskBucket) \in FourBuckets

\* the universe with every label that matches none of low / medium / high
\* replaced by the null label, which normalizeBucket maps to unknown
closedUniverse ==
    [null |-> universe.null,
     rows |-> [i \in DOMAIN universe.rows |->
                 [universe.rows[i] EXCEPT
                     !.riskBucket =
                         IF normalizeBucketClosed(universe.rows[i].riskBucket) = "unknown"
                         THEN NullText ELSE @]]]
tickersOf(ws) == [i \in DOMAIN ws |-> [ticker |-> ws[i].ticker, kpi |-> ws[i].kpi]]

\* C19: the winners are the first 6 of the candidates sorted by total return
\* descending, restricted to those strictly above the portfolio's total
\* return when there is one; the candidates are the universe rows whose
\* normalized bucket is in the adjacency set of the inferred portfolio bucket,
\* that have price data, are not in the portfolio and are not the benchmark.
C19_Winners ==
    last.op = "card" =>
        tickersOf(winners)
            = tickersOf(winnersOf(data, closedUniverse, riskBucket, tickers, benchmark,
                                  portfolio.null, kpi, selIdx))


\* the bucket a holding is counted under when every label that matches none
\* of low / medium / high normalizes to unknown
claimedBucket(t) ==
    LET pick(nb) == IF nb # "unknown" THEN nb ELSE fallbackBucketForTicker(universe, t)
    IN  pick(normalizeBucketClosed(IF hasRow(universe, t)
                                   THEN uniMapGet(universe, t).riskBucket ELSE NullText))
claimedTotal(b) ==
    SeqSum([i \in DOMAIN activeWeights(holdings, tickers) |->
              IF claimedBucket(activeWeights(holdings, tickers)[i].ticker) = b
              THEN activeWeights(holdings, tickers)[i].w ELSE 0])

\* C23: the inferred bucket is the bucket with the largest sum of holding
\* weights, each holding counted under its normalized universe bucket or,
\* when that is unknown, under its fallback bucket; of two buckets with equal
\* sums the one whose first holding comes earlier wins; an empty portfolio
\* gives unknown.
C23_InferredBucket ==
    last.op = "card" =>
        IF activeWeights(holdings, tickers) = <<>> THEN riskBucket = "unknown"
        ELSE \E i \in DOMAIN activeWeights(holdings, tickers) :
                /\ riskBucket = claimedBucket(activeWeights(holdings, tickers)[i].ticker)
                /\ \A j \in DOMAIN activeWeights(holdings, tickers) :
                      /\ claimedTotal(claimedBucket(activeWeights(holdings, tickers)[j].ticker))
                            <= claimedTotal(riskBucket)
                      /\ j < i =>
                            claimedTotal(claimedBucket(activeWeights(holdings, tickers)[j].ticker))
                               < claimedTotal(riskBucket)


\* ------------------------------------------------ the comparison alone
\* The files of the portfolio tickers, of a universe ticker and of the
\* benchmarks; a file may start late, and the benchmark QQQ and the universe
\* ticker NVDA may trade on a date on which the portfolio tickers do not.
LongDates == <<Iso(2020, 1, 1), Iso(2020, 6, 30), Iso(2020, 9, 30), Iso(2020, 12, 31)>>
ComparePool ==
    {<<priceFile("AAPL", "stocks", a, [k \in DOMAIN a |-> k]),
       priceFile("GOOG", "stocks", ChartDates, <<1, 1, 1>>),
       priceFile("NVDA", "stocks", n, [k \in DOMAIN n |-> 1]),
       priceFile("QQQ", "benchmarks", q, [k \in DOMAIN q |-> 2]),
       priceFile("SPY", "benchmarks", ChartDates, <<1, 1, 1>>)>> :
        a \in {ChartDates, Tail(ChartDates)},
        n \in {ChartDates, LongDates},
        q \in {ChartDates, LongDates}}

InitCompare ==
    /\ tickers \in {<<"AAPL">>, <<"AAPL", "GOOG">>}
    /\ holdings = [i \in DOMAIN tickers |-> [ticker |-> tickers[i], shares |-> 1]]
    /\ last = [op |-> "init", ticker |-> "", arg |-> 0, prev |-> <<>>]
    /\ calendar = NoCal
    /\ rangeKey \in {"6M", "ALL"}
    /\ tzOffset = 0
    /\ selIdx = <<>>
    /\ files \in ComparePool
    /\ data = NullData
    /\ portfolio = NullIndex
    /\ kpi = ZeroKpi
    /\ riskIdle
    /\ shellIdle
    /\ loadIdle

NextCompare == LoadCard

SpecCompare == InitCompare /\ [][NextCompare]_vars

\* the dates the chart computed the portfolio index for: its own datesR,
\* over the files of the portfolio tickers only
chartDatesR ==
    datesR(pricesOf(loadedFiles(tickers, "stocks")),
           indicesForRange(pricesOf(loadedFiles(tickers, "stocks")).dates, rangeKey, tzOffset))

\* C27: in the comparison of the portfolio with the benchmark, port[i] and
\* bench[i] are, for every i, the values for the same date dates[i], also
\* when benchmark or universe files have dates no portfolio ticker has.
C27_SameDates ==
    (last.op = "card" /\ ~combined.null) =>
        \A i \in DOMAIN combined.dates :
            /\ i \in DOMAIN chartDatesR
            /\ chartDatesR[i] = combined.dates[i]
            /\ i \in DOMAIN selIdx
            /\ data.dates[selIdx[i] + 1] = combined.dates[i]
            /\ combined.bench[i] = windowedIndex(data, benchmark, selIdx).idx[i]
            /\ combined.port[i] = portfolio.values[i]

\* ================================================== data-loading effects
\* TickerPriceCards, PriceDemoChart and BenchmarkAndWinnersCard each load
\* their data in an effect: the effect starts an async function and returns a
\* cleanup that sets the function's `cancelled` flag.  When the dependencies
\* change React runs the cleanup of the last run and then the effect again.
\* `inputs` counts the runs, loads[g] is the async function of run g, and
\* view is the component state: for every field the value last set, the run
\* `by` whose load set it and the number `at` of runs started by then.
\* JavaScript runs one continuation at a time: the code between two awaits is
\* one step.
MaxInputChanges == 1    \* times the dependencies change after mounting
MaxWanted == 2          \* most tickers in the selection
Components == {"cards", "chart", "bench"}
Untouched == [by |-> 0, at |-> 0, val |-> "initial"]
newLoad(n) ==
    [cancelled |-> FALSE,   \* the flag of this run
     uni |-> "none",        \* the universe fetch: none, wait, ok or fail
     left |-> n,            \* ticker files still to be awaited by the loop
     bleft |-> 0,           \* benchmark files still to be awaited
     got |-> 0,             \* files pushed
     any |-> FALSE,         \* anyUrl is not empty
     inner |-> "run",       \* the loop over the tickers: run or done
     outer |-> "run",       \* the async function of the effect: run or done
     late |-> FALSE]        \* a fetch of this load settled after the cleanup
\* setX(val) called by the load of run g when `now` runs have started
setState(v, g, now, f, val) == [v EXCEPT ![f] = [by |-> g, at |-> now, val |-> val]]
built(l) == IF l.got = 0 THEN "empty" ELSE "built"
\* the async function and the inner one have returned: their locals are gone
ended(l) ==
    IF l.outer = "done" /\ l.inner = "done"
    THEN [newLoad(0) EXCEPT !.cancelled = l.cancelled, !.late = l.late,
                            !.outer = "done", !.inner = "done"]
    ELSE l

\* the end of PriceDemoChart's and BenchmarkAndWinnersCard's async function
\* without `if (cancelled) return;`
finishLoadUnchecked(l, v, g, now) ==
    <<[l EXCEPT !.outer = "done", !.inner = "done"], setState(v, g, now, "data", built(l))>>

\* the end of PriceDemoChart's and BenchmarkAndWinnersCard's async function:
\* if (cancelled) return; setData / setPrices of the empty or the built dataset
finishLoad(l, v, g, now) ==
    <<[l EXCEPT !.outer = "done", !.inner = "done"],
      IF l.cancelled THEN v ELSE setState(v, g, now, "data", built(l))>>

\* the catch block of the three effects
catchLoad(l, v, g, now) ==
    <<[l EXCEPT !.outer = "done"],
      IF l.cancelled THEN v
      ELSE LET cleared(v1) ==
                   IF v.comp = "cards"
                   THEN setState(setState(setState(v1, g, now, "data", "null"),
                                          g, now, "universe", "null"), g, now, "source", "")
                   ELSE setState(setState(setState(v1, g, now, "universe", "null"),
                                          g, now, "benchMeta", "empty"), g, now, "data", "null")
           IN  cleared(setState(v, g, now, "err", "message"))>>

\* TickerPriceCards after Promise.all has resolved
joinCards(l, v, g, now) ==
    <<[l EXCEPT !.outer = "done"],
      IF l.cancelled THEN v
      ELSE setState(setState(v, g, now, "universe", "rows"), g, now, "data", built(l))>>
joinIfReady(l, v, g, now) ==
    IF l.inner = "done" /\ l.uni = "ok" /\ l.outer = "run" THEN joinCards(l, v, g, now)
    ELSE <<l, v>>

\* the async function up to its first await: if (cancelled) return; (the
\* flag is false here) setErr(null); and with no ticker to load the chart
\* goes on to its end, the cards' inner function returns
startLoad(n, v, g, now) ==
    LET begin(l, v1) ==
            IF v.comp = "chart" THEN IF n = 0 THEN finishLoad(l, v1, g, now) ELSE <<l, v1>>
            ELSE IF v.comp = "bench" THEN <<[l EXCEPT !.uni = "wait"], v1>>
            ELSE <<[l EXCEPT !.uni = "wait", !.inner = IF n = 0 THEN "done" ELSE "run"], v1>>
    IN  begin(newLoad(n), setState(v, g, now, "err", "null"))

\* `await loadTickerFile(...)` or `await loadBenchmarkFile(...)` settles in
\* the loop of run g: resolved (ok) or rejected
fileSettled(l, v, g, now, ok) ==
    LET counted == [l EXCEPT !.left = IF @ > 0 THEN @ - 1 ELSE 0,
                             !.bleft = IF l.left > 0 THEN @ ELSE @ - 1,
                             !.got = IF ok THEN @ + 1 ELSE @,
                             !.any = @ \/ ok,
                             !.late = @ \/ l.cancelled]
        gone == [l EXCEPT !.late = TRUE]
    IN  IF v.comp = "cards"
        THEN IF ok /\ l.cancelled
             THEN joinIfReady([gone EXCEPT !.inner = "done", !.got = 0], v, g, now)
             ELSE IF counted.left > 0 THEN <<counted, v>>
             ELSE joinIfReady([counted EXCEPT !.inner = "done"],
                              IF ~l.cancelled /\ counted.any
                              THEN setState(v, g, now, "source", "url") ELSE v,
                              g, now)
        ELSE IF ok /\ l.cancelled
             THEN <<[gone EXCEPT !.outer = "done", !.inner = "done"], v>>
             ELSE IF counted.left + counted.bleft > 0 THEN <<counted, v>>
             ELSE finishLoad(counted, v, g, now)

\* the universe fetch of run g settles; rows is the number of universe
\* tickers that are not in the portfolio, bm the number of benchmarks
universeSettled(l, v, g, now, ok, rows, bm) ==
    LET seen == [l EXCEPT !.uni = IF ok THEN "ok" ELSE "fail", !.late = @ \/ l.cancelled]
    IN  IF ~ok THEN catchLoad(seen, v, g, now)
        ELSE IF v.comp = "cards" THEN joinIfReady(seen, v, g, now)
        ELSE IF l.cancelled THEN <<[seen EXCEPT !.outer = "done", !.inner = "done"], v>>
        ELSE LET loops(l1, v1) ==
                     IF l1.left + l1.bleft = 0 THEN finishLoad(l1, v1, g, now)
                     ELSE <<l1, v1>>
             IN  loops([seen EXCEPT !.left = @ + rows, !.bleft = bm],
                       setState(setState(v, g, now, "universe", "rows"),
                                g, now, "benchMeta", "list"))

loadFrame ==
    /\ UNCHANGED <<tickers, holdings, last, calendar, rangeKey, tzOffset, selIdx, files,
                   data, portfolio, kpi>>
    /\ riskUnchanged
    /\ shellUnchanged

\* the component is mounted and its effect has run once
InitLoad ==
    /\ tickers = <<>>
    /\ holdings = <<>>
    /\ last = [op |-> "init", ticker |-> "", arg |-> 0, prev |-> <<>>]
    /\ calendar = NoCal
    /\ rangeKey = "ALL"
    /\ tzOffset = 0
    /\ selIdx = <<>>
    /\ files = <<>>
    /\ data = NullData
    /\ portfolio = NullIndex
    /\ kpi = ZeroKpi
    /\ riskIdle
    /\ shellIdle
    /\ inputs = 1
    /\ \E c \in Components, n \in 0 .. MaxWanted :
          LET started == startLoad(n, [comp |-> c, err |-> Untouched, data |-> Untouched,
                                       universe |-> Untouched, source |-> Untouched,
                                       benchMeta |-> Untouched], 1, 1)
          IN  loads = <<ended(started[1])>> /\ view = started[2]

\* the ticker selection, the range key or the market changes: the cleanup of
\* the last run sets its flag, then the effect runs for the new inputs
ChangeInputs(n) ==
    /\ inputs <= MaxInputChanges
    /\ inputs' = inputs + 1
    /\ LET started == startLoad(n, view, inputs + 1, inputs + 1)
       IN  /\ loads' = Append([loads EXCEPT ![inputs].cancelled = TRUE], ended(started[1]))
           /\ view' = started[2]
    /\ loadFrame

FileSettles(g, ok) ==
    /\ loads[g].inner = "run"
    /\ loads[g].left + loads[g].bleft > 0
    /\ view.comp = "cards" \/ loads[g].outer = "run"
    /\ loads[g].uni \in {"none", "ok"} \/ view.comp = "cards"
    /\ LET after == fileSettled(loads[g], view, g, inputs, ok)
       IN  loads' = [loads EXCEPT ![g] = ended(after[1])] /\ view' = after[2]
    /\ UNCHANGED inputs
    /\ loadFrame

UniverseSettles(g, ok, rows, bm) ==
    /\ loads[g].uni = "wait"
    /\ LET after == universeSettled(loads[g], view, g, inputs, ok, rows, bm)
       IN  loads' = [loads EXCEPT ![g] = ended(after[1])] /\ view' = after[2]
    /\ UNCHANGED inputs
    /\ loadFrame

NextLoad ==
    \/ \E n \in 0 .. MaxWanted : ChangeInputs(n)
    \/ \E g \in DOMAIN loads, ok \in BOOLEAN : FileSettles(g, ok)
    \/ \E g \in DOMAIN loads, ok \in BOOLEAN, rows \in 0 .. 1, bm \in 0 .. 1 :
          UniverseSettles(g, ok, rows, bm)

SpecLoad == InitLoad /\ [][NextLoad]_vars

ViewFields == {"err", "data", "universe", "source", "benchMeta"}

\* C20: once the inputs of a data-loading effect have changed and its cleanup
\* has run, the load started for the old inputs never writes component state
\* (prices / data, universe, benchmark list, error, source), however the
\* fetch resolutions and the input changes interleave: every field was set by
\* the load of the run that was the latest one at that moment.
C20_StaleLoadsNeverWrite ==
    \A f \in ViewFields : view[f].by = view[f].at

\* a load had fetches settle after its cleanup and has ended, and the load of
\* the latest inputs has set the data
C20_Witness ==
    /\ \E g \in DOMAIN loads :
          /\ loads[g].cancelled /\ loads[g].late
          /\ loads[g].outer = "done" /\ loads[g].inner = "done"
    /\ view.data.by = inputs
    /\ inputs > 1

\* ======================================================= ticker file cache
\* loadTickerFile searches the directories of the market in order; for each
\* it returns the cached file if _tickerFileCache has the key, and otherwise
\* fetches the URL, caching and returning the file when the fetch succeeds
\* and going on to the next directory when it fails.  A call is
\*   [market, freq, ticker,  the arguments
\*    dirs,      the directories still to be searched, the first being awaited
\*    pc,        "fetch" while awaiting fetchJson, "done" or "failed"
\*    dir,       the directory of the file returned
\*    fetches,   the network fetches the call has issued
\*    after,     a call with the same arguments had returned a file before
\*               this one started
\*    prior]     the directory of the file that call returned
MaxCalls == 3       \* calls of loadTickerFile in one behaviour
Markets == {"ALL", "NASDAQ", "NYSE"}
Freqs == {"daily", "intraday"}
marketDir(market) ==
    IF market = "NASDAQ" THEN "nasdaq" ELSE IF market = "NYSE" THEN "nyse" ELSE ""
mkDirs(mk) == IF mk = "ALL" THEN <<"nasdaq", "nyse">> ELSE <<marketDir(mk)>>
cacheKey(md, freq, t) == <<md, freq, t>>

\* the loop of loadTickerFile from the directory Head(c.dirs) on, up to the
\* next await: `fetchJson` is called with `cache: "no-store"`, a network fetch
searchFrom(c, ch) ==
    IF c.dirs = <<>> THEN [c EXCEPT !.pc = "failed"]
    ELSE IF cacheKey(c.dirs[1], c.freq, c.ticker) \in ch
         THEN [c EXCEPT !.pc = "done", !.dir = c.dirs[1]]
         ELSE [c EXCEPT !.pc = "fetch", !.fetches = @ + 1]

\* the files the server holds: <<directory, frequency, ticker>>
ServerFiles ==
    {{}, {<<"nasdaq", "daily", "AAPL">>},
     {<<"nyse", "daily", "AAPL">>},
     {<<"nasdaq", "daily", "AAPL">>, <<"nyse", "daily", "AAPL">>,
      <<"nyse", "intraday", "AAPL">>}}

sameCall(c, mk, freq, t) == c.market = mk /\ c.freq = freq /\ c.ticker = t
\* the earliest call with these arguments that has returned a file
firstReturned(mk, freq, t) ==
    {k \in DOMAIN calls :
        /\ sameCall(calls[k], mk, freq, t) /\ calls[k].pc = "done"
        /\ \A j \in 1 .. k - 1 : ~(sameCall(calls[j], mk, freq, t) /\ calls[j].pc = "done")}

shellFrame ==
    /\ UNCHANGED <<tickers, holdings, last, calendar, rangeKey, tzOffset, selIdx,
                   data, portfolio, kpi>>
    /\ riskUnchanged
    /\ loadUnchanged

InitCache ==
    /\ tickers = <<>>
    /\ holdings = <<>>
    /\ last = [op |-> "init", ticker |-> "", arg |-> 0, prev |-> <<>>]
    /\ calendar = NoCal
    /\ rangeKey = "ALL"
    /\ tzOffset = 0
    /\ selIdx = <<>>
    /\ files \in ServerFiles
    /\ data = NullData
    /\ portfolio = NullIndex
    /\ kpi = ZeroKpi
    /\ riskIdle
    /\ loadIdle
    /\ shellIdle

\* loadTickerFile({ market: mk, freq, ticker: t }) is called and runs up to
\* its first await
CallLoadTickerFile(mk, freq, t) ==
    /\ Len(calls) < MaxCalls
    /\ calls' = Append(calls,
                   searchFrom([market |-> mk, freq |-> freq, ticker |-> t,
                               dirs |-> mkDirs(mk), pc |-> "fetch", dir |-> "",
                               fetches |-> 0,
                               after |-> firstReturned(mk, freq, t) # {},
                               prior |-> IF firstReturned(mk, freq, t) = {} THEN ""
                                         ELSE calls[CHOOSE k \in firstReturned(mk, freq, t) :
                                                       TRUE].dir],
                              cache))
    /\ UNCHANGED <<cache, files, draft, picker, combined, aligned>>
    /\ shellFrame

\* the fetch awaited by call k settles: it can succeed only when the server
\* holds the file; then the file is cached and returned, otherwise the loop
\* goes on with the next directory
FetchSettles(k, ok) ==
    /\ calls[k].pc = "fetch"
    /\ ok => cacheKey(calls[k].dirs[1], calls[k].freq, calls[k].ticker) \in files
    /\ IF ok
       THEN /\ cache' = cache \cup {cacheKey(calls[k].dirs[1], calls[k].freq, calls[k].ticker)}
            /\ calls' = [calls EXCEPT ![k].pc = "done", ![k].dir = calls[k].dirs[1]]
       ELSE /\ cache' = cache
            /\ calls' = [calls EXCEPT
                           ![k] = searchFrom([calls[k] EXCEPT !.dirs = Tail(@)], cache)]
    /\ UNCHANGED <<files, draft, picker, combined, aligned>>
    /\ shellFrame

NextCache ==
    \/ \E mk \in Markets, freq \in Freqs, t \in {"AAPL"} : CallLoadTickerFile(mk, freq, t)
    \/ \E k \in DOMAIN calls, ok \in BOOLEAN : FetchSettles(k, ok)

SpecCache == InitCache /\ [][NextCache]_vars

\* C21: after loadTickerFile has once returned a file for a (market,
\* frequency, ticker), every later call with the same arguments returns the
\* same file without issuing a network fetch, also for the market ALL with a
\* ticker that exists only under nyse and for calls that overlap in time.
C21_RepeatCallsDoNotFetch ==
    \A k \in DOMAIN calls :
        calls[k].after =>
            /\ calls[k].fetches = 0
            /\ calls[k].pc = "done"
            /\ calls[k].dir = calls[k].prior

\* ================================================== the back-filling aligner
\* scripts: forwardFillToCalendar(calendarDates, rowsByDate) of the script
\* that builds prices.json.  Its first loop is the loop of forwardFillSeries
\* (`last` starts as NaN instead of null); then the first finite value of
\* `out` is written over the NaN before it.
forwardFillToCalendarNoHead(calendarDates, rowsByDate) ==
    fillFrom(calendarDates, rowsByDate, NaN)

forwardFillToCalendar(calendarDates, rowsByDate) ==
    LET head(out) ==
            IF \E k \in DOMAIN out : out[k].fin
            THEN [i \in DOMAIN out |->
                    IF \A j \in 1 .. i : ~out[j].fin
                    THEN out[CHOOSE k \in DOMAIN out :
                                out[k].fin /\ \A j \in 1 .. k - 1 : ~out[j].fin]
                    ELSE out[i]]
            ELSE out
    IN  head(fillFrom(calendarDates, rowsByDate, NaN))

\* new Map(rows.map(r => [r.date, r.close])): the last row of a date wins
rowsByDateOf(rows) ==
    [d \in {rows[i].date : i \in DOMAIN rows} |->
        rows[CHOOSE i \in DOMAIN rows :
                rows[i].date = d /\ \A j \in DOMAIN rows : rows[j].date = d => j <= i].close]

\* The calendar is some of four dates in order; the rows of the ticker are
\* what parseCsv returns: dated rows with finite closes, sorted by date.
AlignDates == <<Iso(2020, 1, 1), Iso(2020, 1, 2), Iso(2020, 1, 3), Iso(2020, 1, 6)>>
subSeqOf(S) == SelectSeq(AlignDates, LAMBDA d : d \in S)
RowPool ==
    {[i \in DOMAIN subSeqOf(DOMAIN c) |->
         [date |-> subSeqOf(DOMAIN c)[i], close |-> c[subSeqOf(DOMAIN c)[i]]]] :
        c \in UNION {[S -> {Num(1), Num(2)}] : S \in SUBSET Range(AlignDates)}}

InitAlign ==
    /\ tickers = <<>>
    /\ holdings = <<>>
    /\ last = [op |-> "init", ticker |-> "", arg |-> 0, prev |-> <<>>]
    /\ calendar \in {subSeqOf(S) : S \in SUBSET Range(AlignDates)}
    /\ rangeKey = "ALL"
    /\ tzOffset = 0
    /\ selIdx = <<>>
    /\ files \in RowPool
    /\ data = NullData
    /\ portfolio = NullIndex
    /\ kpi = ZeroKpi
    /\ riskIdle
    /\ loadIdle
    /\ shellIdle

\* series[t] = forwardFillToCalendar(dates, map)
Align ==
    /\ last.op = "init"
    /\ aligned' = forwardFillToCalendar(calendar, rowsByDateOf(files))
    /\ last' = [op |-> "align", ticker |-> "", arg |-> 0, prev |-> <<>>]
    /\ UNCHANGED <<tickers, holdings, calendar, rangeKey, tzOffset, selIdx, files, data,
                   portfolio, kpi, cache, calls, draft, picker, combined>>
    /\ riskUnchanged
    /\ loadUnchanged

NextAlign == Align

SpecAlign == InitAlign /\ [][NextAlign]_vars

\* the calendar positions at which the series has an observation
observedAt == {i \in DOMAIN calendar : calendar[i] \in DOMAIN rowsByDateOf(files)}

\* C24: forwardFillToCalendar returns one value per calendar date.  When the
\* series has an observation on the calendar no value is NaN: the dates
\* before the first observation carry the first observed value and the later
\* ones the most recent observation.  Otherwise every value is NaN.
C24_HeadFilled ==
    last.op = "align" =>
        /\ Len(aligned) = Len(calendar)
        /\ \A i \in DOMAIN calendar :
              aligned[i] =
                 IF observedAt = {} THEN NaN
                 ELSE IF \E j \in observedAt : j <= i
                      THEN rowsByDateOf(files)[
                              calendar[CHOOSE j \in observedAt :
                                          j <= i /\ \A k \in observedAt : k <= i => k <= j]]
                      ELSE rowsByDateOf(files)[
                              calendar[CHOOSE j \in observedAt : \A k \in observedAt : j <= k]]

\* two dates before the first observation, and a gap after it
C24_Witness ==
    /\ last.op = "align"
    /\ Len(calendar) = 4
    /\ observedAt = {3}
    /\ aligned[1] = aligned[3] /\ aligned[4] = aligned[3] /\ aligned[3].fin

\* no observation on a calendar of three dates
C24_WitnessNone ==
    /\ last.op = "align"
    /\ Len(calendar) = 3
    /\ files # <<>>
    /\ observedAt = {}
    /\ \A i \in DOMAIN aligned : ~aligned[i].fin

\* ==================================================== the Total shares field
\* The text of the number input is the empty string or a decimal integer.
EmptyText == [empty |-> TRUE, n |-> 0]
\* String(totalShares)
StringOf(n) == [empty |-> FALSE, n |-> n]
\* Math.max(0, Math.round(Number(totalSharesDraft || 0)))
draftNumber(text) == Max(0, IF text.empty THEN 0 ELSE text.n)

\* useEffect(() => { if (!isEditingTotalShares) setTotalSharesDraft(
\*   String(totalShares)) }, [totalShares, isEditingTotalShares]): it runs
\* after a render in which one of the two dependencies changed, before the
\* next event is handled.  d is the draft state the handler left, hs the
\* holdings it left, before the state the handler started from.
draftEffect(d, hs, before, hsBefore) ==
    IF (d.editing # before.editing \/ totalShares(hs) # totalShares(hsBefore)) /\ ~d.editing
    THEN [d EXCEPT !.text = StringOf(totalShares(hs))]
    ELSE d

\* what the user types: a few totals, a negative number, nothing
TypedTexts == {EmptyText, StringOf(0 - 1), StringOf(0), StringOf(3), StringOf(5)}

\* `gesture` and `typed` follow the user: focus, then the text typed since,
\* then "applied" once Enter or Apply ended that sequence.
InitDraft ==
    /\ \E n \in 0 .. 2 : tickers = SubSeq(<<"AAPL", "MSFT">>, 1, n)
    /\ \E a \in 0 .. 2, b \in 0 .. 2 :
          holdings = [i \in DOMAIN tickers |->
                         [ticker |-> tickers[i], shares |-> IF i = 1 THEN a ELSE b]]
    /\ last = [op |-> "init", ticker |-> "", arg |-> 0, prev |-> <<>>]
    /\ calendar = NoCal
    /\ rangeKey = "1Y"
    /\ tzOffset = 0
    /\ selIdx = <<>>
    /\ files = <<>>
    /\ data = NullData
    /\ portfolio = NullIndex
    /\ kpi = ZeroKpi
    /\ riskIdle
    /\ loadIdle
    /\ cache = {}
    /\ calls = <<>>
    /\ draft = [mounted |-> TRUE, focused |-> FALSE, editing |-> FALSE,
                text |-> StringOf(totalShares(holdings)),
                gesture |-> "none", typed |-> EmptyText]
    /\ picker = [mounted |-> FALSE]
    /\ combined = NullCombined
    /\ aligned = <<>>

draftFrame ==
    /\ UNCHANGED <<tickers, calendar, rangeKey, tzOffset, selIdx, files, data, portfolio, kpi,
                   cache, calls, picker, combined, aligned>>
    /\ riskUnchanged
    /\ loadUnchanged

\* onFocus
FocusTotal ==
    /\ ~draft.focused
    /\ draft' = draftEffect([draft EXCEPT !.focused = TRUE, !.editing = TRUE,
                                          !.gesture = "focus", !.typed = EmptyText],
                            holdings, draft, holdings)
    /\ last' = [op |-> "focus", ticker |-> "", arg |-> 0, prev |-> <<>>]
    /\ UNCHANGED holdings
    /\ draftFrame

\* onChange
TypeTotal(text) ==
    /\ draft.focused
    /\ draft' = draftEffect([draft EXCEPT !.text = text,
                                !.gesture = IF draft.gesture \in {"focus", "typed"}
                                            THEN "typed" ELSE "none",
                                !.typed = IF draft.gesture \in {"focus", "typed"}
                                          THEN text ELSE EmptyText],
                            holdings, draft, holdings)
    /\ last' = [op |-> "type", ticker |-> "", arg |-> 0, prev |-> <<>>]
    /\ UNCHANGED holdings
    /\ draftFrame

\* setTotalSharesAndRescale(n); setIsEditingTotalShares(false)
applyDraft(op) ==
    /\ holdings' = setTotalSharesAndRescale(holdings, draftNumber(draft.text))
    /\ totalShares(holdings') <= MaxTotal
    /\ draft' = draftEffect([draft EXCEPT !.editing = FALSE,
                                !.gesture = IF draft.gesture = "typed"
                                            THEN "applied" ELSE "none"],
                            holdings', draft, holdings)
    /\ last' = [op |-> op, ticker |-> "", arg |-> draftNumber(draft.text), prev |-> holdings]
    /\ draftFrame

\* onKeyDown, Enter
KeyEnter ==
    /\ draft.focused
    /\ applyDraft("enter")

\* onKeyDown, Escape
KeyEscape ==
    /\ draft.focused
    /\ draft' = draftEffect([draft EXCEPT !.editing = FALSE, !.gesture = "none",
                                          !.typed = EmptyText],
                            holdings, draft, holdings)
    /\ last' = [op |-> "escape", ticker |-> "", arg |-> 0, prev |-> holdings]
    /\ UNCHANGED holdings
    /\ draftFrame

\* onBlur
BlurTotal ==
    /\ draft.focused
    /\ draft' = draftEffect([draft EXCEPT !.focused = FALSE, !.editing = FALSE],
                            holdings, draft, holdings)
    /\ last' = [op |-> "blur", ticker |-> "", arg |-> 0, prev |-> holdings]
    /\ UNCHANGED holdings
    /\ draftFrame

\* the Apply button's onClick; pressing the button takes the focus from the
\* input, so its blur has been handled
ClickApply ==
    /\ ~draft.focused
    /\ applyDraft("apply")

NextDraft ==
    \/ FocusTotal
    \/ \E text \in TypedTexts : TypeTotal(text)
    \/ KeyEnter
    \/ KeyEscape
    \/ BlurTotal
    \/ ClickApply

SpecDraft == InitDraft /\ [][NextDraft]_vars

\* C26: after focusing the Total shares field and typing N, clicking Apply
\* (the blur comes before the click) calls setTotalSharesAndRescale with N,
\* so that non-empty holdings sum to N; pressing Enter does the same; a blur
\* or Escape by itself leaves the holdings as they were.
C26_ApplyUsesTypedTotal ==
    /\ (last.op \in {"apply", "enter"} /\ draft.gesture = "applied" /\ ~draft.typed.empty
          /\ draft.typed.n >= 0) =>
          /\ last.arg = draft.typed.n
          /\ holdings # <<>> => totalShares(holdings) = draft.typed.n
    /\ last.op \in {"blur", "escape"} => holdings = last.prev

\* Enter alone
C26_EnterUsesTypedTotal ==
    (last.op = "enter" /\ draft.gesture = "applied" /\ ~draft.typed.empty
       /\ draft.typed.n >= 0) =>
        /\ last.arg = draft.typed.n
        /\ holdings # <<>> => totalShares(holdings) = draft.typed.n

\* ======================================================= the ticker picker
MaxMarketChanges == 2   \* changes of the market in one behaviour

\* tickers.json of a market directory and tickers_all.json, as served
TickerFiles(market) ==
    IF market = "NASDAQ" THEN <<"MSFT", "", "aapl">>
    ELSE IF market = "NYSE" THEN <<"GOOG">>
    ELSE <<"MSFT", "GOOG", "AAPL">>
\* String(t).toUpperCase()
toUpperCase(t) == IF t = "aapl" THEN "AAPL" ELSE t
\* .map(toUpperCase).filter(t => t.length > 0).sort(localeCompare)
cleanTickers(raw) ==
    LET sorted(kept) == SortStable([i \in DOMAIN kept |-> [ticker |-> kept[i]]], "name")
        names(rs) == [i \in DOMAIN rs |-> rs[i].ticker]
    IN  names(sorted(SelectSeq([i \in DOMAIN raw |-> toUpperCase(raw[i])],
                               LAMBDA t : t # "")))

\* the effect's async function up to its await: setErr(null), then the fetch
\* of the market's list is outstanding
startPickerFetch(p, market) ==
    [p EXCEPT !.market = market, !.err = FALSE,
              !.fetches = Append(@, [market |-> market, state |-> "pending"])]

pickerFrame ==
    /\ UNCHANGED <<tickers, holdings, last, calendar, rangeKey, tzOffset, selIdx, files,
                   data, portfolio, kpi, cache, calls, draft, combined, aligned>>
    /\ riskUnchanged
    /\ loadUnchanged

\* LocalTickerPicker is mounted with some market; its effect has run once
InitPicker ==
    /\ tickers = <<>>
    /\ holdings = <<>>
    /\ last = [op |-> "init", ticker |-> "", arg |-> 0, prev |-> <<>>]
    /\ calendar = NoCal
    /\ rangeKey = "1Y"
    /\ tzOffset = 0
    /\ selIdx = <<>>
    /\ files = <<>>
    /\ data = NullData
    /\ portfolio = NullIndex
    /\ kpi = ZeroKpi
    /\ riskIdle
    /\ loadIdle
    /\ cache = {}
    /\ calls = <<>>
    /\ draft = [mounted |-> FALSE]
    /\ \E m \in Markets :
          picker = startPickerFetch([mounted |-> TRUE, market |-> m, options |-> <<>>,
                                     err |-> FALSE, fetches |-> <<>>], m)
    /\ combined = NullCombined
    /\ aligned = <<>>

\* the market prop changes; the effect runs again (it has no cleanup)
ChangeMarket(m) ==
    /\ m # picker.market
    /\ Len(picker.fetches) <= MaxMarketChanges
    /\ picker' = startPickerFetch(picker, m)
    /\ pickerFrame

\* a fetch of a ticker list settles: setOptions(cleaned), or the catch block
PickerFetchSettles(k, ok) ==
    /\ k \in DOMAIN picker.fetches
    /\ picker.fetches[k].state = "pending"
    /\ picker' = IF ok
                 THEN [picker EXCEPT
                          !.options = cleanTickers(TickerFiles(picker.fetches[k].market)),
                          !.fetches[k].state = "ok"]
                 ELSE [picker EXCEPT !.err = TRUE, !.options = <<>>,
                                     !.fetches[k].state = "failed"]
    /\ pickerFrame

NextPicker ==
    \/ \E m \in Markets : ChangeMarket(m)
    \/ \E k \in 1 .. MaxMarketChanges + 1, ok \in BOOLEAN : PickerFetchSettles(k, ok)

SpecPicker == InitPicker /\ [][NextPicker]_vars

\* C29: when the market changed while the fetch of the previous market's
\* list was outstanding, then once both fetches have resolved the option list
\* is the list of the new market, whichever of them resolved last.
C29_OptionsOfCurrentMarket ==
    (/\ Len(picker.fetches) >= 2
     /\ \A k \in DOMAIN picker.fetches : picker.fetches[k].state = "ok") =>
        picker.options = cleanTickers(TickerFiles(picker.market))

====
